---- MODULE Spec2Model ----
(***************************************************************************)
(* RADIUS client engine (liblcb proto/radius_client.c): server registry,   *)
(* per-thread socket pools with packet-id slot tables, query lifecycle,    *)
(* retransmission timer, receiver and client teardown.                     *)
(***************************************************************************)
EXTENDS Integers, Sequences, FiniteSets, TLC

\* ------------------------------------------------------------------ bounds

\* Slots per socket (RADIUS_PKT_HDR_ID_MAX_COUNT, 256 in the protocol), scaled.
RADIUS_PKT_HDR_ID_MAX_COUNT == 2
\* Queries allocated during one run.
MaxQueries == 2
\* Servers registered during one run.
MaxServers == 2
\* Width in bits of the model's unsigned time arithmetic (uint64_t, scaled).
WordBits == 8

\* Timer expiries followed per query where no server setting limits them.
MaxRetrans == 3

RADIUS_CLIENT_ALLOC_CNT == 4

UMod == 2 ^ WordBits

\* ------------------------------------------------------------- value sets

Threads == {0, 1}
PoolNames == {"skts4", "skts6"}
SlotIds == 0 .. (RADIUS_PKT_HDR_ID_MAX_COUNT - 1)
QueryIds == 1 .. MaxQueries
RADIUS_CLIENT_QUERY_ID_AUTO == -1
NULL == 0
\* A null radius_cli_skt_p.
NoSkt == <<>>

\* Client settings given to radius_client_create: pools of up to two
\* sockets, pools of one socket.
ClientSettings ==
    { [servers_max |-> 1, thr_sockets_min |-> 1, thr_sockets_max |-> 2],
      [servers_max |-> 1, thr_sockets_min |-> 1, thr_sockets_max |-> 1] }

\* Entries of skts->skt[] the model keeps: the largest thr_sockets_max.
SktMax ==
    CHOOSE n \in {c.thr_sockets_max : c \in ClientSettings} :
        \A c \in ClientSettings : c.thr_sockets_max <= n

\* Server settings offered to radius_client_server_add: an IPv4 server with
\* one try, an IPv6 server with two, neither with a duration limit.
LifeSrvSettings ==
    { [addr |-> "a4", shared_secret |-> "sa", retrans_time_init |-> 1,
       retrans_time_max |-> 0, retrans_duration_max |-> 0, retrans_count_max |-> 1],
      [addr |-> "c6", shared_secret |-> "sc", retrans_time_init |-> 1,
       retrans_time_max |-> 0, retrans_duration_max |-> 0, retrans_count_max |-> 2] }


\* ss_family of a sockaddr_storage.
ss_family(addr) == IF addr \in {"c6", "x6"} THEN "AF_INET6" ELSE "AF_INET"

\* Packet ids callers ask for.
QueryIdArgs == {0, RADIUS_CLIENT_QUERY_ID_AUTO}

\* The other inputs of one call of radius_client_query(): the pointer
\* arguments that are NULL, what the NAS-Identifier step does ("skip": the
\* code byte read is not Access-Request, "ok", "fail": radius_pkt_attr_add
\* returns an error), whether calloc() and tpt_msg_send() succeed.
\* used: buf->used on entry.
GoodCall == [nulls |-> {}, nas |-> "ok", calloc |-> TRUE, msg_send |-> TRUE, used |-> 1]

\* Length of the NAS-Identifier attribute radius_pkt_attr_add appends.
NAS_Identifier_size == 1

PointerArgs == {"rad_cli", "tpt", "buf", "cb_func"}

\* The calls on offer: the good one, and the ones that differ from it in one
\* input (or have every pointer NULL).
Calls ==
    {GoodCall, [GoodCall EXCEPT !.nulls = PointerArgs]}
        \cup {[GoodCall EXCEPT !.nulls = {a}] : a \in PointerArgs}
        \cup {[GoodCall EXCEPT !.nas = n] : n \in {"skip", "fail"}}
        \cup {[GoodCall EXCEPT !.calloc = FALSE], [GoodCall EXCEPT !.msg_send = FALSE]}

\* Ids of the calls with any arguments: a fixed id, the AUTO sentinel, the
\* first id past the slot table.
AnyQueryIdArgs == QueryIdArgs \cup {RADIUS_PKT_HDR_ID_MAX_COUNT}

\* The environment of one run: the thread that calls radius_client_query()
\* (the code never reads it), the worker it names as tpt, the bytes data_xor8()
\* yields in radius_client_rnd_factor, the servers on offer.
\* queries: the calls of radius_client_query() the run makes.
\* late_add: radius_client_server_add is also called once queries exist.
LifeEnvs ==
    { [caller |-> 0, target |-> 1, jitter |-> {2}, kinds |-> LifeSrvSettings,
       queries |-> MaxQueries, late_add |-> FALSE] }

\* Runs that edit the registry before they submit their one query, so that
\* the query meets registries with disabled entries.
FailEnvs ==
    { [caller |-> 0, target |-> 1, jitter |-> {2}, kinds |-> LifeSrvSettings,
       queries |-> 1, late_add |-> FALSE] }

\* Servers with a limit on the total retransmission time: the first interval
\* of the IPv4 one can pass the limit, the IPv6 one has room for three.
TimeSrvSettings ==
    { [addr |-> "a4", shared_secret |-> "sa", retrans_time_init |-> 4,
       retrans_time_max |-> 0, retrans_duration_max |-> 6, retrans_count_max |-> 0],
      [addr |-> "c6", shared_secret |-> "sc", retrans_time_init |-> 2,
       retrans_time_max |-> 5, retrans_duration_max |-> 6, retrans_count_max |-> 0] }

\* Runs of one query against those servers; the jitter bytes give divisor 2
\* with the sign bit clear and divisor 1 with the sign bit set.
TimeEnvs ==
    { [caller |-> 0, target |-> 1, jitter |-> {2, 129}, kinds |-> TimeSrvSettings,
       queries |-> 1, late_add |-> FALSE] }

\* Servers with a limit on the retransmission time and none on the total:
\* an IPv4 server whose first interval can pass the limit, an IPv6 server
\* whose second can; two tries and three.
CeilSrvSettings ==
    { [addr |-> "a4", shared_secret |-> "sa", retrans_time_init |-> 2,
       retrans_time_max |-> 3, retrans_duration_max |-> 0, retrans_count_max |-> 2],
      [addr |-> "c6", shared_secret |-> "sc", retrans_time_init |-> 2,
       retrans_time_max |-> 6, retrans_duration_max |-> 0, retrans_count_max |-> 3] }

\* Runs of one query against those servers, with the jitter bytes of divisor
\* 2, sign bit clear, and of divisor 1, sign bit set.
CeilEnvs ==
    { [caller |-> 0, target |-> 1, jitter |-> {2, 129}, kinds |-> CeilSrvSettings,
       queries |-> 1, late_add |-> FALSE] }

\* Runs of one query against those servers, none of which ever replies; the
\* jitter bytes give divisor 1 and divisor 2 with the sign bit clear and
\* divisor 1 with the sign bit set.
BudgetEnvs ==
    { [caller |-> 0, target |-> 1, jitter |-> {1, 2, 129}, kinds |-> TimeSrvSettings,
       queries |-> 1, late_add |-> FALSE] }

\* The bytes data_xor8() can yield, and the inputs of one computation of a
\* retransmission time: data > 0 and the byte.
JitterBytes == 0 .. 255
JitterEnvs == {[data |-> t, tm |-> k] : t \in 1 .. (UMod - 1), k \in JitterBytes}

\* Runs of one query submitted from a thread that is not the worker, and
\* from the worker's own thread.
CopyEnvs ==
    { [caller |-> c, target |-> 1, jitter |-> {2}, kinds |-> LifeSrvSettings,
       queries |-> 1, late_add |-> FALSE] : c \in Threads }

\* Runs against the IPv6 server whose queries name either worker and are
\* submitted from either thread.
ThreadEnvs ==
    { [caller |-> c, target |-> 1, jitter |-> {2},
       kinds |-> {s \in LifeSrvSettings : s.addr = "c6"},
       queries |-> MaxQueries, late_add |-> FALSE] : c \in Threads }

\* Two IPv4 servers with different secrets, two tries each.
LateSrvSettings ==
    { [addr |-> "a4", shared_secret |-> "sa", retrans_time_init |-> 1,
       retrans_time_max |-> 0, retrans_duration_max |-> 0, retrans_count_max |-> 2],
      [addr |-> "b4", shared_secret |-> "sb", retrans_time_init |-> 1,
       retrans_time_max |-> 0, retrans_duration_max |-> 0, retrans_count_max |-> 2] }

\* Runs of one query whose registry is edited at any time.
LateEnvs ==
    { [caller |-> 0, target |-> 1, jitter |-> {2}, kinds |-> LateSrvSettings,
       queries |-> 1, late_add |-> TRUE] }

\* Runs against the IPv4 server alone, whose queries meet sockets that served
\* earlier queries.
SlotEnvs ==
    { [caller |-> 0, target |-> 1, jitter |-> {2},
       kinds |-> {s \in LifeSrvSettings : s.addr = "a4"},
       queries |-> MaxQueries, late_add |-> FALSE] }

\* Client settings of those runs: pools that shrink to one socket, pools that
\* keep two.
SlotSettings ==
    { [servers_max |-> 1, thr_sockets_min |-> 1, thr_sockets_max |-> 2],
      [servers_max |-> 1, thr_sockets_min |-> 2, thr_sockets_max |-> 2] }

\* Fixed packet ids of those runs.
FixedIds == SlotIds

\* Runs that only edit the registry.
RegEnvs ==
    { [caller |-> 0, target |-> 1, jitter |-> {2}, kinds |-> LifeSrvSettings,
       queries |-> 0, late_add |-> FALSE] }

\* Client settings of the registry runs: servers_max below and at a multiple
\* of RADIUS_CLIENT_ALLOC_CNT.
RegSettings ==
    { [servers_max |-> 1, thr_sockets_min |-> 1, thr_sockets_max |-> 1],
      [servers_max |-> 4, thr_sockets_min |-> 1, thr_sockets_max |-> 1] }

\* Addresses handed to radius_client_server_remove_by_addr.
RemoveAddrs == {"a4", "c6", "x4"}

\* The caller's buffer before any call of radius_client_query.
ZeroBuf == [given |-> 0, used |-> 0]

\* A calloc()ed server entry.
ZeroSrv ==
    [enabled |-> 0,
     s |-> [addr |-> "none", shared_secret |-> "none", retrans_time_init |-> 0,
            retrans_time_max |-> 0, retrans_duration_max |-> 0,
            retrans_count_max |-> 0]]

SktIds == Threads \X PoolNames \X (0 .. (SktMax - 1))

\* A socket entry that is not allocated (tmr_on: timers still registered with
\* the event loop against this entry's queries_tmr[] records).
ZeroSkt ==
    [alive |-> FALSE, skts |-> FALSE, queries_count |-> 0, queries_index |-> 0,
     ident |-> [i \in SlotIds |-> NULL], tmr_on |-> [i \in SlotIds |-> FALSE]]

ZeroPool ==
    [queries_count |-> 0, skt_count |-> 0, skt |-> [i \in 0 .. (SktMax - 1) |-> NoSkt],
     freed |-> FALSE]

\* A query record that is not allocated.  st: "none", "posted" (message to the
\* worker pending), "live" (handled by the worker, waiting for timer or reply),
\* "freed".
\* Fields from cbs on are history: callbacks run, the thread the callback ran
\* on, the error and the packet it was given, datagrams sent.  A freed query
\* keeps st, cbs, cb_thr, cb_err and cb_pkt.
ZeroQuery ==
    [st |-> "none", tpt |-> 0, cb_func |-> FALSE, udata |-> FALSE, cur_srv_idx |-> 0,
     retrans_count |-> 0, retrans_time |-> 0, retrans_duration |-> 0,
     query_id_any |-> 0, query_id |-> 0, skt |-> NoSkt,
     buf |-> [id |-> 0, sig |-> "none", data |-> "none"],
     error |-> "0",
     cbs |-> 0, cb_thr |-> 0, cb_err |-> "0", cb_pkt |-> "none", sends |-> 0,
     at_destroy |-> FALSE]

\* ------------------------------------------------------------------ state

VARIABLES
    env,       \* the environment of the run
    adders,    \* where each thread stands in radius_client_server_add
    cs,        \* rad_cli->s, client settings
    srv,       \* rad_cli->srv[], the registry array
    cli_srv_count,
    pool,      \* rad_cli->thr[t].skts4 / skts6
    sk,        \* socket entries
    q,         \* queries
    msgq,      \* per-thread message queues of the thread pool
    cli,       \* "live", "destroying", "freed"
    last_ret,  \* the value the last call of the client's interface returned
    cbuf,      \* the caller's buffer of the last radius_client_query call:
               \* buf->used as given and as the call left it
    fault      \* "none", or the undefined behaviour the run ended in:
               \* "null_call" (call of a cleared cb_func), "cancelled_call"
               \* (cb_func read before the cancel, called after it returned),
               \* "uaf_query" (a timer left on a freed socket fires and its
               \* handler follows the slot's pointer to the freed query),
               \* "uaf" (another read or write of freed memory)

vars == <<env, adders, cs, srv, cli_srv_count, pool, sk, q, msgq, cli, last_ret, cbuf,
          fault>>

\* A capacity that is servers_max as the caller gave it.
ServersCapExact(servers_max) == servers_max

\* servers_max rounded up to a multiple of RADIUS_CLIENT_ALLOC_CNT.
ServersCap(servers_max) ==
    ((servers_max + (RADIUS_CLIENT_ALLOC_CNT - 1)) \div RADIUS_CLIENT_ALLOC_CNT)
        * RADIUS_CLIENT_ALLOC_CNT

InitWith(envs, settings) ==
    /\ env \in envs
    /\ adders = [t \in Threads |-> "idle"]
    /\ cs \in settings
    /\ srv = [i \in 0 .. (ServersCap(cs.servers_max) - 1) |-> ZeroSrv]
    /\ cli_srv_count = 0
    /\ pool = [t \in Threads |-> [p \in PoolNames |-> ZeroPool]]
    /\ sk = [s \in SktIds |-> ZeroSkt]
    /\ q = [i \in QueryIds |-> ZeroQuery]
    /\ msgq = [t \in Threads |-> <<>>]
    /\ cli = "live"
    /\ last_ret = "0"
    /\ cbuf = ZeroBuf
    /\ fault = "none"

Init == InitWith(LifeEnvs, ClientSettings)

\* A client whose registry is edited before its one query.
InitFail == InitWith(FailEnvs, ClientSettings)

\* A client whose servers limit the total retransmission time.
InitTime == InitWith(TimeEnvs, ClientSettings)

\* A client whose caller is on any thread.
InitCopy == InitWith(CopyEnvs, ClientSettings)

\* A client whose servers limit the retransmission time alone.
InitCeil == InitWith(CeilEnvs, ClientSettings)

\* A client with pools of one socket whose servers limit the total
\* retransmission time and never reply.
InitBudget == InitWith(BudgetEnvs, {c \in ClientSettings : c.thr_sockets_max = 1})

\* A client with pools of one socket whose callers name either worker.
InitThreads == InitWith(ThreadEnvs, {c \in ClientSettings : c.thr_sockets_max = 1})

\* A client whose registry is edited while its query is in flight.
InitLate == InitWith(LateEnvs, ClientSettings)

\* A client whose worker has an IPv4 pool of n empty sockets left by earlier
\* queries (n up to thr_sockets_min, the sockets a pool keeps), each with the
\* queries_index its last auto id left.
InitSlots ==
    /\ env \in SlotEnvs
    /\ adders = [t \in Threads |-> "idle"]
    /\ cs \in SlotSettings
    /\ srv = [i \in 0 .. (ServersCap(cs.servers_max) - 1) |-> ZeroSrv]
    /\ cli_srv_count = 0
    /\ \E n \in 1 .. cs.thr_sockets_min :
        \E hint \in [0 .. (n - 1) -> 0 .. RADIUS_PKT_HDR_ID_MAX_COUNT] :
            /\ sk = [s \in SktIds |->
                        IF s[1] = env.target /\ s[2] = "skts4" /\ s[3] < n
                        THEN [ZeroSkt EXCEPT !.alive = TRUE, !.skts = TRUE,
                                             !.queries_index = hint[s[3]]]
                        ELSE ZeroSkt]
            /\ pool = [t \in Threads |-> [p \in PoolNames |->
                        IF t = env.target /\ p = "skts4"
                        THEN [ZeroPool EXCEPT
                                !.skt_count = n,
                                !.skt = [i \in 0 .. (SktMax - 1) |->
                                            IF i < n THEN <<t, p, i>> ELSE NoSkt]]
                        ELSE ZeroPool]]
    /\ q = [i \in QueryIds |-> ZeroQuery]
    /\ msgq = [t \in Threads |-> <<>>]
    /\ cli = "live"
    /\ last_ret = "0"
    /\ cbuf = ZeroBuf
    /\ fault = "none"

\* A client whose registry is edited and that gets no query.
InitReg == InitWith(RegEnvs, RegSettings)

\* The heap the handlers work on, as one value.  race: pairs <<query, outcome>>
\* for the queries whose owner runs radius_client_query_cancel on another
\* thread while the handler is between the test of cb_func and the call of
\* it; the unsynchronised read of cb_func for the call yields NULL
\* ("null_call") or the pointer tested before ("cancelled_call").
Heap == [q |-> q, sk |-> sk, pool |-> pool, fault |-> fault, race |-> {}]

RaceOutcomes == {"null_call", "cancelled_call"}

\* The cancels that can race with a handler that may complete the queries
\* of S: none, or one of a handle whose callback has not run.
Races(S) ==
    {{}} \cup {{<<qi, o>>} : qi \in {i \in S \ {NULL} : q[i].cb_func},
                            o \in RaceOutcomes}

\* The queries in the slots of the sockets of thread t.
QueriesOf(t) ==
    {i \in QueryIds : q[i].st = "live" /\ q[i].skt # NoSkt /\ q[i].tpt = t}

HeapRace(race) == [Heap EXCEPT !.race = race]

\* ------------------------------------------------------- pure operations

Min(S) == CHOOSE x \in S : \A y \in S : x <= y

\* radius_client_rnd_factor with the divisor taken from the whole byte, the
\* sign bit included.
RndFactorUnmasked(data, k) ==
    LET tm == IF k % 128 = 0 THEN k + 1 ELSE k
        ret == data \div tm
    IN  IF (tm \div 128) % 2 = 1 THEN (UMod - ret) % UMod ELSE ret

\* radius_client_rnd_factor: data / (tm & 0x7f), negated when tm & 0x80;
\* k is the byte data_xor8() yields from the CRCs of the clock and of data.
radius_client_rnd_factor(data, k) ==
    LET tm == IF k % 128 = 0 THEN k + 1 ELSE k
        ret == data \div (tm % 128)
    IN  IF (tm \div 128) % 2 = 1 THEN (UMod - ret) % UMod ELSE ret

\* "Gen new retrans time" of radius_client_send_new: data minus its jitter,
\* in uint64_t arithmetic.
GenRetransTime(data, k) ==
    (data + UMod - radius_client_rnd_factor(data, k)) % UMod

\* A pool choice that sends every family to the IPv4 pool.
PoolOfInet(family) == "skts4"

\* skts = (AF_INET == family) ? &thr->skts4 : &thr->skts6
PoolOf(family) == IF family = "AF_INET" THEN "skts4" ELSE "skts6"

\* freezero(query): the memory is gone; the history of the query is kept.
radius_client_query_free(h, qi) ==
    LET old == h.q[qi]
    IN  [h EXCEPT !.q[qi] =
            [ZeroQuery EXCEPT !.st = "freed", !.cbs = old.cbs, !.cb_thr = old.cb_thr,
                              !.at_destroy = old.at_destroy,
                              !.cb_err = old.cb_err, !.cb_pkt = old.cb_pkt]]

\* radius_client_query_done_tpt_msg_cb on thread tpt: call cb_func with
\* query->pkt (the data of query->buf) and query->error, free the query.
radius_client_query_done_tpt_msg_cb(h, tpt, qi) ==
    IF \E r \in h.race : r[1] = qi
    THEN [h EXCEPT !.fault = (CHOOSE r \in h.race : r[1] = qi)[2]]
    ELSE radius_client_query_free(
            [h EXCEPT !.q[qi].cbs = @ + 1, !.q[qi].cb_thr = tpt,
                      !.q[qi].cb_err = h.q[qi].error,
                      !.q[qi].cb_pkt = h.q[qi].buf.data], qi)

\* A completion that frees the query and never runs its callback.
QueryDoneTailSilent(h, tpt, qi, has_buf, error) ==
    IF h.fault # "none" THEN h ELSE radius_client_query_free(h, qi)

\* radius_client_query_done past its call of radius_client_query_unlink_skt,
\* on thread tpt; has_buf: buf is not NULL (a reply).  The callback runs
\* directly when tpt is query->tpt, else by a message to query->tpt after the
\* reply was copied to the caller's buffer.
QueryDoneTail(h, tpt, qi, has_buf, error) ==
    LET query == h.q[qi]
        h2 == [h EXCEPT !.q[qi].error = error]
        h3 == IF tpt = query.tpt THEN h2
              ELSE [h2 EXCEPT !.q[qi].buf.data =
                                IF error = "0" /\ has_buf THEN "reply" ELSE @]
    IN  IF h.fault # "none" THEN h
        ELSE IF ~query.cb_func THEN radius_client_query_free(h, qi)
        ELSE radius_client_query_done_tpt_msg_cb(h3, query.tpt, qi)

\* The "Remove from skts list" loop of radius_client_socket_free.
SocketListRemove(h, s) ==
    LET t == s[1]
        p == s[2]
        skts == h.pool[t][p]
        hit == {i \in 0 .. (skts.skt_count - 1) : skts.skt[i] = s}
    IN  IF (~h.sk[s].skts) \/ hit = {} THEN h
        ELSE [h EXCEPT !.pool[t][p].queries_count = @ - h.sk[s].queries_count,
                       !.pool[t][p].skt_count = @ - 1,
                       !.pool[t][p].skt[Min(hit)] = NoSkt,
                       !.sk[s].skts = FALSE]

\* The "Destroy all queries" loop of radius_client_socket_free, from slot i
\* on: query->skt is cleared first, so the radius_client_query_unlink_skt
\* call of radius_client_query_done returns at once.
RECURSIVE DestroyQueries(_, _, _, _)
DestroyQueries(h, s, idents, i) ==
    IF i = RADIUS_PKT_HDR_ID_MAX_COUNT THEN h
    ELSE DestroyQueries(
            IF idents[i] = NULL THEN h
            ELSE QueryDoneTail([h EXCEPT !.q[idents[i]].skt = NoSkt],
                               s[1], idents[i], FALSE, "EINTR"),
            s, idents, i + 1)

\* radius_client_socket_free: the timers of the occupied slots are not
\* deleted, they stay registered against the freed entry.
radius_client_socket_free(h, s) ==
    IF s = NoSkt THEN h
    ELSE
    LET h1 == SocketListRemove(h, s)
        h2 == DestroyQueries(h1, s, h1.sk[s].ident, 0)
    IN  [h2 EXCEPT !.sk[s] = [ZeroSkt EXCEPT !.tmr_on = h2.sk[s].tmr_on]]

\* An unlink that leaves the pool's queries_count as it was.
UnlinkKeepsPoolCount(h, qi) ==
    LET query == h.q[qi]
        s == query.skt
    IN  IF s = NoSkt THEN h
        ELSE [h EXCEPT !.q[qi].skt = NoSkt,
                       !.sk[s].tmr_on[query.query_id] = FALSE,
                       !.sk[s].ident[query.query_id] = NULL,
                       !.sk[s].queries_count = @ - 1]

\* An unlink that leaves the query's pointer in the slot.
UnlinkKeepsSlot(h, qi) ==
    LET query == h.q[qi]
        s == query.skt
    IN  IF s = NoSkt THEN h
        ELSE [h EXCEPT !.q[qi].skt = NoSkt,
                       !.sk[s].tmr_on[query.query_id] = FALSE,
                       !.sk[s].queries_count = @ - 1,
                       !.pool[s[1]][s[2]].queries_count = @ - 1]

\* A shrink test that lets the pool go one socket below thr_sockets_min.
SocketSpareAtMin(queries_count, skt_count, thr_sockets_min) ==
    queries_count = 0 /\ skt_count >= thr_sockets_min

\* "Does we steel need this socket?" of radius_client_query_unlink_skt
\* without its last test: the socket is empty and the pool holds more than
\* thr_sockets_min sockets.
SocketSpare(queries_count, skt_count, thr_sockets_min) ==
    queries_count = 0 /\ skt_count > thr_sockets_min

\* A last test that any socket of the pool passes.
SocketIsAny(skts, s) == \E i \in 0 .. (skts.skt_count - 1) : skts.skt[i] = s

\* "skt->skts->skt[(skt->skts->skt_count - 1)] == skt" of
\* radius_client_query_unlink_skt.
SocketIsLast(skts, s) == skts.skt[skts.skt_count - 1] = s

\* radius_client_query_unlink_skt: clear the slot, delete its timer, decrement
\* the counters, free the socket when it is the empty tail above sockets_min.
radius_client_query_unlink_skt(h, qi) ==
    LET query == h.q[qi]
        s == query.skt
    IN  IF s = NoSkt THEN h
        ELSE
        LET t == s[1]
            p == s[2]
            id == query.query_id
            h1 == [h EXCEPT !.q[qi].skt = NoSkt,
                            !.sk[s].tmr_on[id] = FALSE,
                            !.sk[s].ident[id] = NULL,
                            !.sk[s].queries_count = @ - 1,
                            !.pool[t][p].queries_count = @ - 1]
            skts == h1.pool[t][p]
        IN  IF SocketSpare(h1.sk[s].queries_count, skts.skt_count, cs.thr_sockets_min)
            THEN IF skts.freed
                 THEN [h1 EXCEPT !.fault = "uaf"]
                 ELSE IF SocketIsLast(skts, s)
                      THEN radius_client_socket_free(h1, s)
                      ELSE h1
            ELSE h1

\* radius_client_query_done on thread tpt; has_buf: buf is not NULL (a reply).
radius_client_query_done(h, tpt, qi, has_buf, error) ==
    QueryDoneTail(radius_client_query_unlink_skt(h, qi), tpt, qi, has_buf, error)

\* radius_client_send: enable the timer with retrans_time, sendto().
radius_client_send(h, qi, ok) ==
    LET query == h.q[qi]
    IN  IF ok
        THEN [h |-> [h EXCEPT !.sk[query.skt].tmr_on[query.query_id] = TRUE,
                              !.q[qi].sends = (@ + 1) % UMod],
              error |-> "0"]
        ELSE [h |-> [h EXCEPT !.sk[query.skt].tmr_on[query.query_id] = FALSE],
              error |-> "ENOBUFS"]

\* A server search that takes the entry at idx whatever its enabled flag.
NextEnabledAny(idx) == idx

\* "Find next enabled server" loop of radius_client_send_new.
NextEnabled(idx) ==
    LET en == {i \in idx .. (cli_srv_count - 1) : srv[i].enabled # 0}
    IN  IF idx >= cli_srv_count THEN idx
        ELSE IF en = {} THEN cli_srv_count ELSE Min(en)

\* A probe that starts at slot 0 whatever queries_index is.
AutoProbeFromZero(skt) ==
    LET any == {j \in SlotIds : skt.ident[j] = NULL}
    IN  IF any # {} THEN Min(any) ELSE -1

\* Two-segment probe of one socket for an auto id; -1 when no slot is empty.
AutoProbe(skt) ==
    LET hi == {j \in SlotIds : j >= skt.queries_index /\ skt.ident[j] = NULL}
        lo == {j \in SlotIds : j < skt.queries_index /\ skt.ident[j] = NULL}
    IN  IF hi # {} THEN Min(hi) ELSE IF lo # {} THEN Min(lo) ELSE -1

\* A slot loop that takes the last socket that has room.
FindSocketLast(h, t, p, query) ==
    LET skts == h.pool[t][p]
        okay == {i \in 0 .. (skts.skt_count - 1) :
                    IF query.query_id_any = 0
                    THEN h.sk[skts.skt[i]].ident[query.query_id] = NULL
                    ELSE h.sk[skts.skt[i]].queries_count # RADIUS_PKT_HDR_ID_MAX_COUNT}
    IN  IF okay = {} THEN -1 ELSE CHOOSE i \in okay : \A j \in okay : j <= i

\* The "Allocate slot in socket" loop: index in skts->skt[] of the socket
\* chosen, or -1.
FindSocket(h, t, p, query) ==
    LET skts == h.pool[t][p]
        okay == {i \in 0 .. (skts.skt_count - 1) :
                    IF query.query_id_any = 0
                    THEN h.sk[skts.skt[i]].ident[query.query_id] = NULL
                    ELSE /\ h.sk[skts.skt[i]].queries_count # RADIUS_PKT_HDR_ID_MAX_COUNT
                         /\ AutoProbe(h.sk[skts.skt[i]]) # -1}
    IN  IF okay = {} THEN -1 ELSE Min(okay)

\* radius_client_socket_alloc once the cap was checked: a new entry at
\* skts->skt[skt_count].
radius_client_socket_alloc(h, t, p) ==
    LET n == h.pool[t][p].skt_count
        s == <<t, p, n>>
    IN  [h EXCEPT !.sk[s] = [ZeroSkt EXCEPT !.alive = TRUE, !.skts = TRUE],
                  !.pool[t][p].skt[n] = s,
                  !.pool[t][p].skt_count = n + 1]

\* A cap test that lets the pool grow one socket past thr_sockets_max.
SocketCapPassed(skt_count, thr_sockets_max) == skt_count > thr_sockets_max

\* "skts->skt_count >= rad_cli->s.thr_sockets_max" of radius_client_send_new.
SocketCapReached(skt_count, thr_sockets_max) == skt_count >= thr_sockets_max

\* A sign_and_send that leaves the retry counter and the duration as the
\* last server left them.
SignAndSendKeepsCounters(h, qi, s, k1, k2, ok) ==
    LET rt0 == GenRetransTime(s.retrans_time_init, k1)
        rt == IF s.retrans_time_max # 0 /\ rt0 > s.retrans_time_max
              THEN GenRetransTime(s.retrans_time_max, k2)
              ELSE rt0
    IN  radius_client_send(
            [h EXCEPT !.q[qi].buf.sig = s.shared_secret,
                      !.q[qi].retrans_time = rt],
            qi, ok)

\* sign_and_send: of radius_client_send_new.
SignAndSend(h, qi, s, k1, k2, ok) ==
    LET rt0 == GenRetransTime(s.retrans_time_init, k1)
        rt == IF s.retrans_time_max # 0 /\ rt0 > s.retrans_time_max
              THEN GenRetransTime(s.retrans_time_max, k2)
              ELSE rt0
    IN  radius_client_send(
            [h EXCEPT !.q[qi].buf.sig = s.shared_secret,
                      !.q[qi].retrans_time = rt,
                      !.q[qi].retrans_count = 0,
                      !.q[qi].retrans_duration = 0],
            qi, ok)

\* The link step with the id byte of the caller's buffer left as it came.
LinkAndSendKeepId(h, qi, skt, query_id, s, k1, k2, ok) ==
    LET query == h.q[qi]
        id == IF query.query_id_any # 0 THEN query_id ELSE query.query_id
        h1 == IF query.query_id_any # 0
              THEN [h EXCEPT !.sk[skt].queries_index = query_id + 1,
                             !.q[qi].query_id = query_id]
              ELSE h
        h2 == [h1 EXCEPT !.sk[skt].ident[id] = qi,
                         !.sk[skt].queries_count = @ + 1,
                         !.pool[skt[1]][skt[2]].queries_count = @ + 1,
                         !.q[qi].skt = skt,
                         !.sk[skt].tmr_on[id] = TRUE]
    IN  SignAndSend(h2, qi, s, k1, k2, ok)

\* "Add/link query to socket" of radius_client_send_new, then sign_and_send.
LinkAndSend(h, qi, skt, query_id, s, k1, k2, ok) ==
    LET query == h.q[qi]
        id == IF query.query_id_any # 0 THEN query_id ELSE query.query_id
        h1 == IF query.query_id_any # 0
              THEN [h EXCEPT !.sk[skt].queries_index = query_id + 1,
                             !.q[qi].query_id = query_id,
                             !.q[qi].buf.id = query_id % 256]
              ELSE h
        h2 == [h1 EXCEPT !.sk[skt].ident[id] = qi,
                         !.sk[skt].queries_count = @ + 1,
                         !.pool[skt[1]][skt[2]].queries_count = @ + 1,
                         !.q[qi].skt = skt,
                         !.sk[skt].tmr_on[id] = TRUE]
    IN  SignAndSend(h2, qi, s, k1, k2, ok)

\* radius_client_send_new on thread tpt; k1, k2 the jitter bytes, ok the result
\* of sendto().  Yields the heap and the error returned.
radius_client_send_new(h, tpt, qi, k1, k2, ok) ==
    IF cli_srv_count = 0 THEN [h |-> h, error |-> "EDESTADDRREQ"]
    ELSE
    LET idx == NextEnabled(h.q[qi].cur_srv_idx)
        h0 == [h EXCEPT !.q[qi].cur_srv_idx = idx]
    IN  IF idx >= cli_srv_count THEN [h |-> h0, error |-> "ECONNREFUSED"]
        ELSE
        LET s == srv[idx].s
            p == PoolOf(ss_family(s.addr))
            cur == h0.q[qi].skt
        IN  IF cur # NoSkt /\ cur[1] = tpt /\ cur[2] = p
            THEN SignAndSend(h0, qi, s, k1, k2, ok)
            ELSE
            LET h1 == radius_client_query_unlink_skt(h0, qi)
                skts == h1.pool[tpt][p]
            IN  IF h1.fault # "none" THEN [h |-> h1, error |-> "0"]
                ELSE IF skts.freed /\ skts.skt_count > 0
                THEN [h |-> [h1 EXCEPT !.fault = "uaf"], error |-> "0"]
                ELSE
                LET i == FindSocket(h1, tpt, p, h1.q[qi])
                IN  IF i # -1
                    THEN LinkAndSend(h1, qi, skts.skt[i],
                                     AutoProbe(h1.sk[skts.skt[i]]), s, k1, k2, ok)
                    ELSE IF SocketCapReached(skts.skt_count, cs.thr_sockets_max)
                    THEN [h |-> h1, error |-> "EAGAIN"]
                    ELSE IF skts.freed
                    THEN [h |-> [h1 EXCEPT !.fault = "uaf"], error |-> "0"]
                    ELSE LinkAndSend(radius_client_socket_alloc(h1, tpt, p), qi,
                                     <<tpt, p, skts.skt_count>>, 0, s, k1, k2, ok)

\* The failover loop and err_out of radius_client_query_timeout_cb; s0 is the
\* socket whose timer record tp_udata points into, oks the sendto() results.
RECURSIVE Failover(_, _, _, _, _, _, _, _)
Failover(h, t, qi, s0, error, k1, k2, oks) ==
    IF h.fault # "none" \/ error = "0" THEN h
    ELSE IF ~h.sk[s0].alive THEN [h EXCEPT !.fault = "uaf"]
    ELSE IF (h.q[qi].cur_srv_idx + 1) < cli_srv_count
    THEN LET nxt == h.q[qi].cur_srv_idx + 1
             r == radius_client_send_new([h EXCEPT !.q[qi].cur_srv_idx = nxt],
                                         t, qi, k1, k2, oks[nxt])
         IN  Failover(r.h, t, qi, s0, r.error, k1, k2, oks)
    ELSE radius_client_query_done(h, t, qi, FALSE, error)

\* A retry test that allows one expiry more than retrans_count_max.
RetryCountPassed(retrans_count, retrans_count_max) ==
    retrans_count_max # 0 /\ retrans_count > retrans_count_max

\* "Retry count exeed" test of radius_client_query_timeout_cb.
RetryCountExceed(retrans_count, retrans_count_max) ==
    retrans_count_max # 0 /\ retrans_count >= retrans_count_max

\* radius_client_query_timeout_cb for a slot that holds query qi.
QueryTimeout(h, t, qi, s0, k1, k2, ok, oks) ==
    LET query == h.q[qi]
        s == srv[query.cur_srv_idx].s
        cnt == (query.retrans_count + 1) % UMod
        dur == (query.retrans_duration + query.retrans_time) % UMod
        h1 == [h EXCEPT !.q[qi].retrans_count = cnt,
                        !.q[qi].retrans_duration = dur]
        rt1 == ((2 * query.retrans_time) + UMod
                    - radius_client_rnd_factor(query.retrans_time, k1)) % UMod
        rt2 == IF s.retrans_time_max # 0 /\ rt1 > s.retrans_time_max
               THEN (s.retrans_time_max + UMod
                        - radius_client_rnd_factor(s.retrans_time_max, k2)) % UMod
               ELSE rt1
        over == /\ s.retrans_duration_max # 0
                /\ ((dur + rt2) % UMod) >= s.retrans_duration_max
        rt3 == IF over THEN (s.retrans_duration_max + UMod - dur) % UMod ELSE rt2
        h2 == [h1 EXCEPT !.q[qi].retrans_time = rt3]
    IN  IF RetryCountExceed(cnt, s.retrans_count_max)
        THEN radius_client_query_done(h1, t, qi, FALSE, "ETIMEDOUT")
        ELSE IF s.retrans_duration_max # 0 /\ dur >= s.retrans_duration_max
        THEN radius_client_query_done(h1, t, qi, FALSE, "ETIMEDOUT")
        ELSE IF over /\ rt3 < s.retrans_time_init
        THEN radius_client_query_done(h2, t, qi, FALSE, "ETIMEDOUT")
        ELSE LET r == radius_client_send(h2, qi, ok)
             IN  Failover(r.h, t, qi, s0, r.error, k1, k2, oks)

\* The loop of radius_client_destroy_tpt_msg_cb over one pool, from index i.
RECURSIVE DestroyLoop(_, _, _, _)
DestroyLoop(h, t, p, i) ==
    IF i < h.pool[t][p].skt_count
    THEN DestroyLoop(radius_client_socket_free(h, h.pool[t][p].skt[i]), t, p, i + 1)
    ELSE h

\* ---------------------------------------------------------------- actions

\* The handler's result; a run that met undefined behaviour stops there.
Apply(h) ==
    IF h.fault # "none"
    THEN fault' = h.fault /\ UNCHANGED <<q, sk, pool>>
    ELSE /\ q' = h.q
         /\ sk' = h.sk
         /\ pool' = h.pool
         /\ fault' = h.fault

\* radius_client_server_add
radius_client_server_add(s) ==
    /\ fault = "none" /\ cli = "live"
    /\ IF ServersCap(cs.servers_max) = cli_srv_count
       THEN last_ret' = "EMLINK" /\ UNCHANGED <<srv, cli_srv_count>>
       ELSE /\ srv' = [srv EXCEPT ![cli_srv_count] = [enabled |-> 1, s |-> s]]
            /\ cli_srv_count' = cli_srv_count + 1
            /\ last_ret' = "0"
    /\ UNCHANGED <<env, cbuf, adders, cs, pool, sk, q, msgq, cli, fault>>

\* radius_client_server_add up to MTX_LOCK: the pointer tests and the test of
\* the count against the capacity, made before the mutex is taken.
ServerAddTest(t) ==
    /\ fault = "none" /\ cli = "live"
    /\ adders[t] = "idle"
    /\ IF ServersCap(cs.servers_max) = cli_srv_count
       THEN last_ret' = "EMLINK" /\ UNCHANGED adders
       ELSE adders' = [adders EXCEPT ![t] = "tested"] /\ UNCHANGED last_ret
    /\ UNCHANGED <<env, cbuf, cs, srv, cli_srv_count, pool, sk, q, msgq, cli, fault>>

\* radius_client_server_add from MTX_LOCK to MTX_UNLOCK: the entry at the
\* count is written and the count incremented; at or beyond the capacity the
\* entry is outside the calloc()ed array.
ServerAddLocked(t, s) ==
    /\ fault = "none" /\ cli = "live"
    /\ adders[t] = "tested"
    /\ adders' = [adders EXCEPT ![t] = "idle"]
    /\ IF cli_srv_count >= ServersCap(cs.servers_max)
       THEN fault' = "oob" /\ UNCHANGED <<srv, cli_srv_count, last_ret>>
       ELSE /\ srv' = [srv EXCEPT ![cli_srv_count] = [enabled |-> 1, s |-> s]]
            /\ cli_srv_count' = cli_srv_count + 1
            /\ last_ret' = "0"
            /\ UNCHANGED fault
    /\ UNCHANGED <<env, cbuf, cs, pool, sk, q, msgq, cli>>

\* The memmove and memset of radius_client_server_remove[_by_addr] once
\* entry i was picked.  The memmove copies sizeof(radius_cli_srv_p) bytes per
\* entry that follows i, all of them into the head of entry i: the enabled
\* flag of entry i + 1 and, from two following entries on, head: whether the
\* bytes copied reach the address in the settings (the layout is the
\* build's).  The memset clears the entry at the decremented count minus
\* one; with one entry that is the entry before the array.
RegistryRemoveAt(i, head) ==
    LET n == cli_srv_count
        k == n - (i + 1)
        moved == IF k = 0 THEN srv[i]
                 ELSE [srv[i] EXCEPT
                          !.enabled = srv[i + 1].enabled,
                          !.s.addr = IF k >= 2 /\ head THEN srv[i + 1].s.addr ELSE @]
        srv1 == [srv EXCEPT ![i] = moved]
    IN  /\ cli_srv_count' = n - 1
        /\ IF n = 1
           THEN srv' = srv1 /\ fault' = "oob"
           ELSE srv' = [srv1 EXCEPT ![n - 2] = ZeroSrv] /\ fault' = fault

\* radius_client_server_remove; i: the entry of rad_cli->srv[] the handle
\* points to.
radius_client_server_remove(i, head) ==
    /\ fault = "none" /\ cli = "live"
    /\ IF i < cli_srv_count
       THEN RegistryRemoveAt(i, head)
       ELSE UNCHANGED <<srv, cli_srv_count, fault>>
    /\ UNCHANGED <<env, cbuf, adders, cs, pool, sk, q, msgq, cli, last_ret>>

\* The entries radius_client_server_remove_by_addr does not skip:
\* sa_addr_port_is_eq() is not 0 for equal addresses, and those `continue`.
RemoveByAddrHits(addr) ==
    {i \in 0 .. (cli_srv_count - 1) : srv[i].s.addr # addr}

\* radius_client_server_remove_by_addr
radius_client_server_remove_by_addr(addr, head) ==
    /\ fault = "none" /\ cli = "live"
    /\ IF RemoveByAddrHits(addr) # {}
       THEN RegistryRemoveAt(Min(RemoveByAddrHits(addr)), head)
       ELSE UNCHANGED <<srv, cli_srv_count, fault>>
    /\ UNCHANGED <<env, cbuf, adders, cs, pool, sk, q, msgq, cli, last_ret>>

\* An argument test that looks at the pointers only.
QueryArgsInvalidNoId(nulls, query_id) == nulls # {}

\* The argument tests of radius_client_query and radius_client_query_alloc.
QueryArgsInvalid(nulls, query_id) ==
    \/ nulls # {}
    \/ RADIUS_PKT_HDR_ID_MAX_COUNT <= query_id /\ RADIUS_CLIENT_QUERY_ID_AUTO # query_id

\* buf->used when radius_client_query returns: past the pointer test, the
\* NAS-Identifier attribute is added to an Access-Request before anything
\* else is tested.  A radius_pkt_attr_add that fails adds nothing.
QueryBufUsed(call) ==
    IF call.nulls = {} /\ call.nas = "ok"
    THEN call.used + NAS_Identifier_size
    ELSE call.used

\* What radius_client_query returns without having posted a query, "0" when
\* it posts one: the pointer test, the NAS-Identifier step, the tests of
\* radius_client_query_alloc and its calloc(), tpt_msg_send (after whose
\* failure the query is freed again).
QueryError(query_id, call) ==
    IF call.nulls # {} THEN "EINVAL"
    ELSE IF call.nas = "fail" THEN "radius_pkt_attr_add"
    ELSE IF QueryArgsInvalid(call.nulls, query_id) THEN "EINVAL"
    ELSE IF ~call.calloc THEN "ENOMEM"
    ELSE IF ~call.msg_send THEN "tpt_msg_send"
    ELSE "0"

\* radius_client_query: allocate the query, post the message to thread tpt.
radius_client_query(tpt, query_id, call) ==
    /\ fault = "none" /\ cli = "live"
    /\ last_ret' = QueryError(query_id, call)
    /\ cbuf' = [given |-> call.used, used |-> QueryBufUsed(call)]
    /\ IF QueryError(query_id, call) # "0"
       THEN UNCHANGED <<q, msgq>>
       ELSE \E qi \in QueryIds :
            /\ q[qi].st = "none"
            /\ \A j \in QueryIds : j < qi => q[j].st # "none"
            /\ q' = [q EXCEPT ![qi] =
                    [ZeroQuery EXCEPT
                        !.st = "posted", !.tpt = tpt, !.cb_func = TRUE,
                        !.udata = TRUE,
                        !.query_id_any = IF query_id = RADIUS_CLIENT_QUERY_ID_AUTO
                                         THEN 1 ELSE 0,
                        !.query_id = query_id,
                        !.buf = [id |-> IF query_id = RADIUS_CLIENT_QUERY_ID_AUTO
                                        THEN 0 ELSE query_id,
                                 sig |-> "none", data |-> "req"]]]
            /\ msgq' = [msgq EXCEPT ![tpt] = Append(@, [type |-> "query", query |-> qi])]
    /\ UNCHANGED <<env, adders, cs, srv, cli_srv_count, pool, sk, cli, fault>>

\* A cancel that also stops the timer of the query's slot.
QueryCancelStopTimer(qi) ==
    /\ fault = "none"
    /\ q[qi].st \in {"posted", "live"}
    /\ q[qi].cb_func
    /\ q' = [q EXCEPT ![qi].cb_func = FALSE, ![qi].udata = FALSE]
    /\ sk' = IF q[qi].skt = NoSkt THEN sk
             ELSE [sk EXCEPT ![q[qi].skt].tmr_on[q[qi].query_id] = FALSE]
    /\ UNCHANGED <<env, cbuf, adders, cs, srv, cli_srv_count, pool, msgq, cli, last_ret, fault>>

\* radius_client_query_cancel, called by the owner of the handle before the
\* completion callback has run.
radius_client_query_cancel(qi) ==
    /\ fault = "none"
    /\ q[qi].st \in {"posted", "live"}
    /\ q[qi].cb_func
    /\ q' = [q EXCEPT ![qi].cb_func = FALSE, ![qi].udata = FALSE]
    /\ UNCHANGED <<env, cbuf, adders, cs, srv, cli_srv_count, pool, sk, msgq, cli, last_ret, fault>>

\* A handler that looks for the socket and the slot in the pools of the
\* thread that called radius_client_query.
QueryMsgOnCaller(t, k1, k2, ok, race) ==
    /\ fault = "none"
    /\ msgq[t] # <<>> /\ Head(msgq[t]).type = "query"
    /\ msgq' = [msgq EXCEPT ![t] = Tail(@)]
    /\ LET qi == Head(msgq[t]).query
           h0 == [HeapRace(race) EXCEPT !.q[qi].st = "live"]
           r == radius_client_send_new(h0, env.caller, qi, k1, k2, ok)
       IN  IF cli = "freed" THEN Apply([Heap EXCEPT !.fault = "uaf"])
           ELSE IF r.error # "0" /\ r.h.fault = "none"
           THEN Apply(radius_client_query_done(r.h, t, qi, FALSE, r.error))
           ELSE Apply(r.h)
    /\ UNCHANGED <<env, cbuf, adders, cs, srv, cli_srv_count, cli, last_ret>>

\* A handler that leaves the query as radius_client_send_new left it,
\* whatever it returned.
QueryMsgKeepsQuery(t, k1, k2, ok, race) ==
    /\ fault = "none"
    /\ msgq[t] # <<>> /\ Head(msgq[t]).type = "query"
    /\ msgq' = [msgq EXCEPT ![t] = Tail(@)]
    /\ LET qi == Head(msgq[t]).query
           h0 == [HeapRace(race) EXCEPT !.q[qi].st = "live"]
       IN  Apply(radius_client_send_new(h0, t, qi, k1, k2, ok).h)
    /\ UNCHANGED <<env, cbuf, adders, cs, srv, cli_srv_count, cli, last_ret>>

\* radius_client_query_tpt_msg_cb on thread t.
radius_client_query_tpt_msg_cb(t, k1, k2, ok, race) ==
    /\ fault = "none"
    /\ msgq[t] # <<>> /\ Head(msgq[t]).type = "query"
    /\ msgq' = [msgq EXCEPT ![t] = Tail(@)]
    /\ LET qi == Head(msgq[t]).query
           h0 == [HeapRace(race) EXCEPT !.q[qi].st = "live"]
           r == radius_client_send_new(h0, t, qi, k1, k2, ok)
       IN  IF cli = "freed" THEN Apply([Heap EXCEPT !.fault = "uaf"])
           ELSE IF r.error # "0" /\ r.h.fault = "none"
           THEN Apply(radius_client_query_done(r.h, t, qi, FALSE, r.error))
           ELSE Apply(r.h)
    /\ UNCHANGED <<env, cbuf, adders, cs, srv, cli_srv_count, cli, last_ret>>

\* radius_client_query_timeout_cb: the timer of slot id of socket s fires.
radius_client_query_timeout_cb(s, id, k1, k2, ok, oks, race) ==
    /\ fault = "none"
    /\ sk[s].tmr_on[id]
    /\ IF ~sk[s].alive THEN Apply([Heap EXCEPT !.fault = "uaf_query"])
       ELSE IF cli = "freed" THEN Apply([Heap EXCEPT !.fault = "uaf"])
       ELSE LET h0 == [HeapRace(race) EXCEPT !.sk[s].tmr_on[id] = FALSE]
                qi == sk[s].ident[id]
            IN  IF qi = NULL THEN Apply(h0)
                ELSE Apply(QueryTimeout(h0, s[1], qi, s, k1, k2, ok, oks))
    /\ UNCHANGED <<env, cbuf, adders, cs, srv, cli_srv_count, msgq, cli, last_ret>>

\* A receiver without the "Filter packets by from addr" test.
RecvAnyAddr(s, error, addr, pkt, race) ==
    IF cli = "freed" THEN [Heap EXCEPT !.fault = "uaf"]
    ELSE IF error # 0 \/ ~pkt.chk THEN Heap
    ELSE LET qi == sk[s].ident[pkt.id]
         IN  IF qi = NULL THEN Heap
             ELSE IF pkt.sig # srv[q[qi].cur_srv_idx].s.shared_secret
             THEN Heap
             ELSE radius_client_query_done(HeapRace(race), s[1], qi, TRUE, "0")

\* The body of radius_client_recv_cb for a datagram pkt from address addr on
\* socket s: the heap it leaves.  Every `goto rcv_next` leaves it as it was.
Recv(s, error, addr, pkt, race) ==
    IF cli = "freed" THEN [Heap EXCEPT !.fault = "uaf"]
    ELSE IF error # 0 \/ ~pkt.chk THEN Heap
    ELSE LET qi == sk[s].ident[pkt.id]
         IN  IF qi = NULL THEN Heap
             ELSE IF addr # srv[q[qi].cur_srv_idx].s.addr
             THEN Heap
             ELSE IF pkt.sig # srv[q[qi].cur_srv_idx].s.shared_secret
             THEN Heap
             ELSE radius_client_query_done(HeapRace(race), s[1], qi, TRUE, "0")

\* radius_client_recv_cb
radius_client_recv_cb(s, error, addr, pkt, race) ==
    /\ fault = "none"
    /\ sk[s].alive
    /\ Apply(Recv(s, error, addr, pkt, race))
    /\ UNCHANGED <<env, cbuf, adders, cs, srv, cli_srv_count, msgq, cli, last_ret>>

\* radius_client_destroy up to the return of tpt_msg_bsend's posting.
radius_client_destroy ==
    /\ fault = "none" /\ cli = "live"
    /\ cli' = "destroying"
    /\ msgq' = [t \in Threads |-> Append(msgq[t], [type |-> "destroy", query |-> NULL])]
    /\ UNCHANGED <<env, cbuf, adders, cs, srv, cli_srv_count, pool, sk, q, last_ret, fault>>

\* The same call in a run that keeps, in the history of each query, whether
\* its message was waiting when radius_client_destroy was called.
DestroyNoted ==
    /\ fault = "none" /\ cli = "live"
    /\ cli' = "destroying"
    /\ msgq' = [t \in Threads |-> Append(msgq[t], [type |-> "destroy", query |-> NULL])]
    /\ q' = [qi \in QueryIds |->
                [q[qi] EXCEPT !.at_destroy = (q[qi].st = "posted")]]
    /\ UNCHANGED <<env, cbuf, adders, cs, srv, cli_srv_count, pool, sk, last_ret, fault>>

\* radius_client_destroy_tpt_msg_cb on thread t.
radius_client_destroy_tpt_msg_cb(t, race) ==
    /\ fault = "none"
    /\ msgq[t] # <<>> /\ Head(msgq[t]).type = "destroy"
    /\ msgq' = [msgq EXCEPT ![t] = Tail(@)]
    /\ LET h4 == DestroyLoop(HeapRace(race), t, "skts4", 0)
           h5 == [h4 EXCEPT !.pool[t]["skts4"].freed = TRUE]
           h6 == DestroyLoop(h5, t, "skts6", 0)
       IN  Apply([h6 EXCEPT !.pool[t]["skts6"].freed = TRUE])
    /\ UNCHANGED <<env, cbuf, adders, cs, srv, cli_srv_count, cli, last_ret>>

\* The rest of radius_client_destroy, once every thread ran the message:
\* free(rad_cli->thr), free(rad_cli->srv), free(rad_cli).
DestroyReturn ==
    /\ fault = "none" /\ cli = "destroying"
    /\ \A t \in Threads : pool[t]["skts6"].freed
    /\ cli' = "freed"
    /\ UNCHANGED <<env, cbuf, adders, cs, srv, cli_srv_count, pool, sk, q, msgq, last_ret, fault>>

\* Datagrams the receive task hands over: error of the receive, result of
\* radius_pkt_chk, id byte, secret the authenticator was made with.
Datagrams ==
    { [error |-> 0, chk |-> TRUE, addr |-> "a4", sig |-> "sa"],
      [error |-> 0, chk |-> TRUE, addr |-> "c6", sig |-> "sc"],
      [error |-> 0, chk |-> TRUE, addr |-> "a4", sig |-> "bad"],
      [error |-> 0, chk |-> TRUE, addr |-> "c6", sig |-> "sa"],
      [error |-> 0, chk |-> TRUE, addr |-> "x4", sig |-> "sa"],
      [error |-> 0, chk |-> TRUE, addr |-> "x6", sig |-> "sc"],
      [error |-> 0, chk |-> FALSE, addr |-> "a4", sig |-> "sa"],
      [error |-> 1, chk |-> TRUE, addr |-> "c6", sig |-> "sc"] }

Next ==
    \/ \E s \in env.kinds :
            /\ cli_srv_count < MaxServers
            /\ env.late_add \/ q[1].st = "none"
            /\ radius_client_server_add(s)
    \/ \E id \in QueryIdArgs :
            /\ \E qi \in 1 .. env.queries : q[qi].st = "none"
            /\ radius_client_query(env.target, id, GoodCall)
    \/ \E qi \in QueryIds : radius_client_query_cancel(qi)
    \/ \E t \in {u \in Threads : msgq[u] # <<>>} :
            \E k1, k2 \in env.jitter, ok \in BOOLEAN,
               race \in Races({Head(msgq[t]).query}) :
                radius_client_query_tpt_msg_cb(t, k1, k2, ok, race)
    \/ \E s \in SktIds : \E id \in {i \in SlotIds : sk[s].tmr_on[i]} :
            \E k1, k2 \in env.jitter, ok \in BOOLEAN,
               oks \in [1 .. MaxServers -> BOOLEAN],
               race \in Races({sk[s].ident[id]}) :
                radius_client_query_timeout_cb(s, id, k1, k2, ok, oks, race)
    \/ \E s \in {u \in SktIds : sk[u].alive} :
            \E d \in Datagrams, id \in SlotIds : \E race \in Races({sk[s].ident[id]}) :
                radius_client_recv_cb(s, d.error, d.addr,
                                      [chk |-> d.chk, id |-> id, sig |-> d.sig], race)
    \/ radius_client_destroy
    \/ \E t \in {u \in Threads : msgq[u] # <<>>} :
            \E race \in Races(QueriesOf(t)) : radius_client_destroy_tpt_msg_cb(t, race)
    \/ DestroyReturn

Spec == Init /\ [][Next]_vars

\* The client with the registry edited while no query exists yet.
NextFail ==
    \/ Next
    \/ \E i \in 0 .. (MaxServers - 1), head \in BOOLEAN :
            q[1].st = "none" /\ radius_client_server_remove(i, head)
    \/ \E addr \in RemoveAddrs, head \in BOOLEAN :
            q[1].st = "none" /\ radius_client_server_remove_by_addr(addr, head)

SpecFail == InitFail /\ [][NextFail]_vars

\* The client against servers with a limit on the retransmission time alone.
SpecCeil == InitCeil /\ [][Next]_vars

\* The worker takes the message of a query; every sendto() succeeds.
BudgetMsg ==
    \E t \in {u \in Threads : msgq[u] # <<>>} :
        \E k1, k2 \in env.jitter :
            radius_client_query_tpt_msg_cb(t, k1, k2, TRUE, {})

\* A retransmission timer fires; every sendto() succeeds.
BudgetTimer ==
    \E s \in SktIds : \E id \in {i \in SlotIds : sk[s].tmr_on[i]} :
        \E k1, k2 \in env.jitter :
            radius_client_query_timeout_cb(s, id, k1, k2, TRUE,
                                           [i \in 1 .. MaxServers |-> TRUE], {})

\* The client whose servers never reply: no receive event, no cancel, no
\* destroy.
NextBudget ==
    \/ \E s \in env.kinds :
            /\ cli_srv_count < MaxServers
            /\ q[1].st = "none"
            /\ radius_client_server_add(s)
    \/ /\ \E qi \in 1 .. env.queries : q[qi].st = "none"
       /\ radius_client_query(env.target, RADIUS_CLIENT_QUERY_ID_AUTO, GoodCall)
    \/ BudgetMsg
    \/ BudgetTimer

\* The event loop of a worker runs every posted message and every armed
\* timer in the end.
SpecBudget ==
    InitBudget /\ [][NextBudget]_vars /\ WF_vars(BudgetMsg) /\ WF_vars(BudgetTimer)

\* The client with queries for both workers: radius_client_query is also
\* called with the other worker as tpt.
NextThreads ==
    \/ Next
    \/ \E id \in QueryIdArgs, t \in Threads \ {env.target} :
            /\ \E qi \in 1 .. env.queries : q[qi].st = "none"
            /\ radius_client_query(t, id, GoodCall)

SpecThreads == InitThreads /\ [][NextThreads]_vars

\* The client against servers with a limit on the retransmission time.
SpecTime == InitTime /\ [][Next]_vars

\* One computation of a retransmission time for query 1 (lines 892-893 of
\* radius_client_send_new); last_ret keeps what radius_client_rnd_factor
\* returned, -1 before the call.
InitJitter ==
    /\ env \in JitterEnvs
    /\ adders = [t \in Threads |-> "idle"]
    /\ cs \in ClientSettings
    /\ srv = [i \in 0 .. (ServersCap(cs.servers_max) - 1) |-> ZeroSrv]
    /\ cli_srv_count = 0
    /\ pool = [t \in Threads |-> [p \in PoolNames |-> ZeroPool]]
    /\ sk = [s \in SktIds |-> ZeroSkt]
    /\ q = [i \in QueryIds |-> ZeroQuery]
    /\ msgq = [t \in Threads |-> <<>>]
    /\ cli = "live"
    /\ last_ret = -1
    /\ cbuf = ZeroBuf
    /\ fault = "none"

NextJitter ==
    /\ last_ret = -1
    /\ last_ret' = radius_client_rnd_factor(env.data, env.tm)
    /\ q' = [q EXCEPT ![1].retrans_time = GenRetransTime(env.data, env.tm)]
    /\ UNCHANGED <<env, cbuf, adders, cs, srv, cli_srv_count, pool, sk, msgq, cli, fault>>

SpecJitter == InitJitter /\ [][NextJitter]_vars

\* The client called from each thread.
SpecCopy == InitCopy /\ [][Next]_vars

\* The client of those runs with the history of radius_client_destroy kept.
NextPending ==
    \/ Next
    \/ DestroyNoted

SpecPending == InitCopy /\ [][NextPending]_vars

\* The client with the registry edited at any time.
NextLate ==
    \/ (\A qi \in QueryIds : q[qi].retrans_count < MaxRetrans) /\ Next
    \/ \E i \in 0 .. (MaxServers - 1), head \in BOOLEAN :
            radius_client_server_remove(i, head)
    \/ \E addr \in RemoveAddrs, head \in BOOLEAN :
            radius_client_server_remove_by_addr(addr, head)

SpecLate == InitLate /\ [][NextLate]_vars

\* The client asked for every fixed id.
NextSlots ==
    \/ Next
    \/ \E id \in FixedIds \ QueryIdArgs :
            /\ \E qi \in 1 .. env.queries : q[qi].st = "none"
            /\ radius_client_query(env.target, id, GoodCall)

SpecSlots == InitSlots /\ [][NextSlots]_vars

\* The client called with any arguments.
NextArgs ==
    \/ Next
    \/ \E id \in AnyQueryIdArgs, call \in Calls :
            /\ QueryError(id, call) # "0"
                    \/ \E qi \in 1 .. env.queries : q[qi].st = "none"
            /\ radius_client_query(env.target, id, call)

SpecArgs == InitFail /\ [][NextArgs]_vars

\* The registry alone.
NextReg ==
    \/ \E s \in env.kinds : radius_client_server_add(s)
    \/ \E i \in 0 .. (ServersCap(cs.servers_max) - 1), head \in BOOLEAN :
            radius_client_server_remove(i, head)
    \/ \E addr \in RemoveAddrs, head \in BOOLEAN :
            radius_client_server_remove_by_addr(addr, head)

SpecReg == InitReg /\ [][NextReg]_vars

\* The registry edited from two threads at once, radius_client_server_add in
\* its two parts.
NextAdders ==
    \/ \E t \in Threads : ServerAddTest(t)
    \/ \E t \in Threads, s \in env.kinds : ServerAddLocked(t, s)
    \/ \E i \in 0 .. (ServersCap(cs.servers_max) - 1), head \in BOOLEAN :
            radius_client_server_remove(i, head)
    \/ \E addr \in RemoveAddrs, head \in BOOLEAN :
            radius_client_server_remove_by_addr(addr, head)

SpecAdders == InitReg /\ [][NextAdders]_vars

\* ------------------------------------------------------------- properties

\* Handler steps complete a query: it was posted or live, and is freed.
Completed(qi) == q[qi].st \in {"posted", "live"} /\ q'[qi].st = "freed"

\* The pool radius_client_send_new resolves for a query taken from the
\* message queue: the family of the first server (every server is enabled).
FirstPool == PoolOf(ss_family(srv[0].s.addr))

\* No socket of pool p of thread t has a slot the query can take.
NoUsableSlot(t, p, qi) ==
    \A i \in 0 .. (pool[t][p].skt_count - 1) :
        LET skt == sk[pool[t][p].skt[i]]
        IN  IF q[qi].query_id_any = 0
            THEN skt.ident[q[qi].query_id] # NULL
            ELSE \A j \in SlotIds : skt.ident[j] # NULL

\* C1: single completion.  The callback of a query runs at most once, and
\* the completion path neither calls a cleared (null) callback pointer nor
\* calls the callback after radius_client_query_cancel has returned.
C1_SingleCompletion ==
    /\ \A qi \in QueryIds : q[qi].cbs <= 1
    /\ fault \notin {"null_call", "cancelled_call"}

\* C2: slot/query bijection.  Between handlers, every query whose socket
\* pointer is set is live, sits in that socket's slot at its own query_id and
\* has the slot's timer armed; every occupied slot holds a live query that
\* points back to the socket and the slot, so a slot holds one query and a
\* query one slot.
C2_SlotQueryBijection ==
    /\ \A qi \in QueryIds :
        q[qi].skt # NoSkt =>
            /\ q[qi].st = "live"
            /\ sk[q[qi].skt].alive
            /\ sk[q[qi].skt].ident[q[qi].query_id] = qi
            /\ sk[q[qi].skt].tmr_on[q[qi].query_id]
    /\ \A s \in SktIds : \A id \in SlotIds :
        sk[s].ident[id] # NULL =>
            /\ sk[s].alive
            /\ q[sk[s].ident[id]].st = "live"
            /\ q[sk[s].ident[id]].skt = s
            /\ q[sk[s].ident[id]].query_id = id

\* Reached for C2: one query was unlinked and completed while another still
\* occupies a slot of a socket.
C2_Witness ==
    /\ fault = "none"
    /\ \E a, b \in QueryIds :
        /\ q[a].st = "freed" /\ q[a].cbs = 1
        /\ q[b].st = "live" /\ q[b].skt # NoSkt

\* C3: failover on budget exhaustion.  A timer expiry completes a query with
\* ETIMEDOUT only when no further server remains after its current one;
\* otherwise the query moves on to the next server.
C3_FailoverOnExhaustion ==
    [][\A qi \in QueryIds :
        (Completed(qi) /\ q'[qi].cb_err = "ETIMEDOUT")
            => ~((q[qi].cur_srv_idx + 1) < cli_srv_count)]_vars

\* C4: shutdown.  Once radius_client_destroy has returned, every socket of
\* every pool is freed and no query is left in a slot.
C4_Shutdown ==
    cli = "freed" =>
        /\ \A s \in SktIds : ~sk[s].alive
        /\ \A qi \in QueryIds : q[qi].st # "live"

\* C5: completion thread.  The callback of a query runs on the thread that
\* called radius_client_query().
C5_CompletionThread ==
    \A qi \in QueryIds : q[qi].cbs > 0 => q[qi].cb_thr = env.caller

\* C6: a query is freed once and never used after it was freed: no handler
\* follows a pointer to a freed query, and no query stays allocated once the
\* client was destroyed.
C6_FreedOnce ==
    /\ fault # "uaf_query"
    /\ cli = "freed" => \A qi \in QueryIds : q[qi].st # "live"

\* C7: retry exhaustion on a single server.  With one server registered,
\* retrans_count_max = N > 0 and no duration limit, a query in a slot has been
\* sent once more than its timer has expired, fewer than N times expired; a
\* timer expiry that does not end it adds one expiry and one sent datagram;
\* and it completes with ETIMEDOUT on the N-th expiry exactly, after N
\* datagrams, its callback run once.
C7_RetryExhaustion ==
    [][\A qi \in QueryIds :
        (/\ cli_srv_count = 1
         /\ srv[0].s.retrans_count_max > 0
         /\ srv[0].s.retrans_duration_max = 0
         /\ q[qi].st = "live" /\ q[qi].skt # NoSkt)
        => /\ q[qi].sends = q[qi].retrans_count + 1
           /\ q[qi].retrans_count < srv[0].s.retrans_count_max
           /\ (q'[qi].st = "freed" /\ q'[qi].cb_err = "ETIMEDOUT")
                => /\ q[qi].retrans_count + 1 = srv[0].s.retrans_count_max
                   /\ q[qi].sends = srv[0].s.retrans_count_max
                   /\ q'[qi].cbs = 1
           /\ (q'[qi].st = "live" /\ q'[qi].retrans_count # q[qi].retrans_count)
                => /\ q'[qi].retrans_count = q[qi].retrans_count + 1
                   /\ q'[qi].sends = q[qi].sends + 1]_vars

\* Reached for C7: the only server allows two tries and a query completed
\* with ETIMEDOUT, its callback run once.
C7_Witness ==
    /\ cli_srv_count = 1
    /\ srv[0].s.retrans_count_max = 2
    /\ \E qi \in QueryIds :
        q[qi].st = "freed" /\ q[qi].cb_err = "ETIMEDOUT" /\ q[qi].cbs = 1

\* C8: happy path.  A callback that reports error 0 is handed the reply
\* packet, not the request.
C8_HappyPath ==
    \A qi \in QueryIds :
        (q[qi].cbs > 0 /\ q[qi].cb_err = "0") => q[qi].cb_pkt = "reply"

C11_FailoverOrder ==
    [][\A qi \in QueryIds :
        /\ (q[qi].st = "posted" /\ q'[qi].st = "live")
            => /\ \A j \in 0 .. (q'[qi].cur_srv_idx - 1) : srv[j].enabled = 0
               /\ q'[qi].retrans_count = 0 /\ q'[qi].retrans_duration = 0
               /\ q'[qi].sends = 1
        /\ (q[qi].st \in {"posted", "live"} /\ q'[qi].st = "live")
            => /\ q'[qi].cur_srv_idx >= q[qi].cur_srv_idx
               /\ q'[qi].sends # q[qi].sends
                    => /\ q'[qi].cur_srv_idx < cli_srv_count
                       /\ srv[q'[qi].cur_srv_idx].enabled # 0
        /\ (q[qi].st = "live" /\ q'[qi].st = "live"
                /\ q'[qi].cur_srv_idx # q[qi].cur_srv_idx)
            => /\ q'[qi].sends = q[qi].sends + 1
               /\ q'[qi].retrans_count = 0 /\ q'[qi].retrans_duration = 0]_vars

\* Reached for C11: the first entry of the registry is disabled and the query
\* waits for the second server, sent once, no expiry counted.
C11_Witness ==
    /\ cli_srv_count = 2 /\ srv[0].enabled = 0 /\ srv[1].enabled = 1
    /\ \E qi \in QueryIds :
        /\ q[qi].st = "live" /\ q[qi].cur_srv_idx = 1
        /\ q[qi].sends = 1 /\ q[qi].retrans_count = 0

\* Reached for C11 as well: a query moved from server 0 to server 1.
C11_Moved ==
    /\ srv[0].enabled = 1 /\ srv[1].enabled = 1
    /\ \E qi \in QueryIds : q[qi].st = "live" /\ q[qi].cur_srv_idx = 1

\* C12: duration cap.  For a server with retrans_duration_max > 0, the
\* intervals armed for a query against it, the first one included, sum to at
\* most retrans_duration_max: retrans_duration holds the intervals that
\* expired, retrans_time the one that is armed.
C12_DurationCap ==
    \A qi \in QueryIds :
        (/\ q[qi].st = "live" /\ q[qi].skt # NoSkt
         /\ sk[q[qi].skt].tmr_on[q[qi].query_id]
         /\ srv[q[qi].cur_srv_idx].s.retrans_duration_max # 0)
            => q[qi].retrans_duration + q[qi].retrans_time
                    <= srv[q[qi].cur_srv_idx].s.retrans_duration_max

\* The part of C12 the code keeps: once an interval has expired, the sum
\* stays within the limit.
C12_LaterIntervals ==
    \A qi \in QueryIds :
        (/\ q[qi].st = "live" /\ q[qi].skt # NoSkt
         /\ sk[q[qi].skt].tmr_on[q[qi].query_id]
         /\ q[qi].retrans_count > 0
         /\ srv[q[qi].cur_srv_idx].s.retrans_duration_max # 0)
            => q[qi].retrans_duration + q[qi].retrans_time
                    <= srv[q[qi].cur_srv_idx].s.retrans_duration_max

\* C13: jitter bounds.  For every t > 0 and every byte k the jitter is
\* t / max(k & 0x7f, 1), negated in uint64_t when k & 0x80 is set; the
\* interval t - jitter is t minus the quotient without a borrow when the sign
\* bit is clear and t plus the quotient otherwise, it is a value of the
\* unsigned type, and it differs from t by at most t.
C13_JitterBounds ==
    last_ret # -1 =>
        LET t == env.data
            k == env.tm
            d == IF k % 128 = 0 THEN 1 ELSE k % 128
            j == t \div d
            rt == q[1].retrans_time
        IN  /\ d >= 1 /\ j <= t
            /\ k < 128 => last_ret = j /\ rt = t - j
            /\ k >= 128 => last_ret = (UMod - j) % UMod /\ rt = (t + j) % UMod
            /\ rt >= 0 /\ rt < UMod
            /\ IF rt >= t THEN rt - t <= t ELSE t - rt <= t

\* Reached for C13: the byte 0x80, whose divisor would be 0, with the largest
\* t: the divisor is 1, the jitter is negated and t + t wraps to UMod - 2.
C13_Witness ==
    /\ last_ret # -1 /\ env.tm = 128 /\ env.data = UMod - 1
    /\ last_ret = 1 /\ q[1].retrans_time = UMod - 2

\* C14: id discipline.  Whenever a datagram of a query submitted with
\* RADIUS_CLIENT_QUERY_ID_AUTO has gone out (first send, retransmission or
\* send to the next server, in the same or in the other pool), the query sits
\* in the slot query_id of its socket and the id byte of its buffer is that
\* slot index.
C14_IdDiscipline ==
    [][\A qi \in QueryIds :
        (q'[qi].sends # q[qi].sends /\ q'[qi].query_id_any # 0)
            => /\ q'[qi].st = "live" /\ q'[qi].skt # NoSkt
               /\ sk'[q'[qi].skt].ident[q'[qi].query_id] = qi
               /\ q'[qi].buf.id = q'[qi].query_id]_vars

\* Reached for C14: an auto-id query sent from slot 1, the buffer's id byte
\* rewritten from 0 to 1.
C14_Witness ==
    \E qi \in QueryIds :
        /\ q[qi].st = "live" /\ q[qi].query_id_any # 0 /\ q[qi].sends >= 1
        /\ q[qi].query_id = 1 /\ q[qi].buf.id = 1

\* Reached for C14 as well: an auto-id query that left an IPv6 socket for
\* slot 1 of an IPv4 socket when it moved to the second server.
C14_PoolChange ==
    \E qi \in QueryIds :
        /\ q[qi].st = "live" /\ q[qi].query_id_any # 0 /\ q[qi].sends >= 2
        /\ q[qi].cur_srv_idx = 1 /\ q[qi].skt # NoSkt /\ q[qi].skt[2] = "skts4"
        /\ ss_family(srv[0].s.addr) = "AF_INET6"
        /\ q[qi].query_id = 1 /\ q[qi].buf.id = 1

\* C15: server_add.  A call below the capacity (servers_max rounded up to a
\* multiple of 4) returns 0 and appends the new entry, enabled and with the
\* settings given, after the entries there are, which stay as they were; a
\* call at the capacity returns EMLINK and leaves the registry as it was; the
\* registry never holds more entries than the capacity.
C15_ServerAdd ==
    [][LET n == cli_srv_count
           cap == CHOOSE c \in cs.servers_max .. (cs.servers_max + 3) : c % 4 = 0
       IN  /\ n <= cap /\ cli_srv_count' <= cap
           /\ cli_srv_count' > n
                => /\ n < cap /\ cli_srv_count' = n + 1 /\ last_ret' = "0"
                   /\ srv'[n].enabled = 1 /\ srv'[n].s \in env.kinds
                   /\ \A j \in 0 .. (n - 1) : srv'[j] = srv[j]
           /\ (last_ret' = "EMLINK" /\ last_ret # "EMLINK")
                => n = cap /\ UNCHANGED <<srv, cli_srv_count>>
           /\ (\E s \in env.kinds : radius_client_server_add(s))
                => IF n = cap THEN last_ret' = "EMLINK" ELSE cli_srv_count' = n + 1]_vars

\* Reached for C15: a client created with servers_max = 1 holds four enabled
\* servers and the fifth server_add has returned EMLINK.
C15_Witness ==
    /\ cs.servers_max = 1 /\ cli_srv_count = 4 /\ last_ret = "EMLINK"
    /\ \A j \in 0 .. 3 : srv[j].enabled = 1

\* The registry after the step holds the entries it held before without
\* entry i, in their order.
RemovedExactly(i) ==
    /\ cli_srv_count' = cli_srv_count - 1
    /\ \A j \in 0 .. (cli_srv_count - 2) :
            srv'[j] = srv[IF j < i THEN j ELSE j + 1]
    /\ fault' = "none"

\* C16: server_remove.  A call with the handle of entry i of a registry of
\* n >= 1 entries leaves the other n - 1 entries, in their order, with their
\* settings and enabled flags (an empty registry when n = 1), and writes
\* nothing outside the registry; a call with a handle of no entry leaves the
\* registry as it was.
C16_ServerRemove ==
    [][\A i \in 0 .. (ServersCap(cs.servers_max) - 1), head \in BOOLEAN :
        radius_client_server_remove(i, head)
            => IF i < cli_srv_count
               THEN RemovedExactly(i)
               ELSE UNCHANGED <<srv, cli_srv_count>>]_vars

\* C17: server_remove_by_addr.  A call removes the entry whose address equals
\* addr, and no other; when no entry has that address the registry stays as
\* it was.
C17_ServerRemoveByAddr ==
    [][\A addr \in RemoveAddrs, head \in BOOLEAN :
        radius_client_server_remove_by_addr(addr, head)
            => IF \E i \in 0 .. (cli_srv_count - 1) : srv[i].s.addr = addr
               THEN \E i \in 0 .. (cli_srv_count - 1) :
                        srv[i].s.addr = addr /\ RemovedExactly(i)
               ELSE UNCHANGED <<srv, cli_srv_count>>]_vars

\* The query sits in a slot of a socket.
InSlot(qi) == q[qi].st = "live" /\ q[qi].skt # NoSkt

\* C18: query_cancel.  The step that clears the callback of a query that is
\* not completed by it clears cb_func and udata of that query and changes
\* nothing else: the query stays in its slot with its timer, server index and
\* counters, and stays allocated.  A cancelled query in a slot goes on like
\* any other: an expiry that does not end it counts one retry and sends one
\* datagram.  Its completion, by a reply or by the timer, frees it and runs
\* no callback.
C18_Cancel ==
    [][\A qi \in QueryIds :
        /\ (q[qi].cb_func /\ ~q'[qi].cb_func /\ q'[qi].st # "freed")
            => /\ q' = [q EXCEPT ![qi].cb_func = FALSE, ![qi].udata = FALSE]
               /\ UNCHANGED <<srv, cli_srv_count, pool, sk, msgq, cli, fault>>
        /\ (InSlot(qi) /\ ~q[qi].cb_func /\ q'[qi].st = "live"
                /\ q'[qi].retrans_count = q[qi].retrans_count + 1)
            => /\ q'[qi].sends = q[qi].sends + 1
               /\ q'[qi].skt = q[qi].skt /\ q'[qi].query_id = q[qi].query_id
               /\ sk'[q[qi].skt].tmr_on[q[qi].query_id]
               /\ ~q'[qi].cb_func
        /\ (Completed(qi) /\ ~q[qi].cb_func)
            => q'[qi].cbs = 0 /\ fault' = "none"]_vars

\* Reached for C18: one cancelled query was freed and its callback never
\* ran, another cancelled query sits in its slot with its timer armed after
\* one expiry and one retransmission.
C18_Witness ==
    /\ fault = "none"
    /\ \E qi, qj \in QueryIds :
        /\ q[qi].st = "freed" /\ q[qi].cbs = 0
        /\ InSlot(qj) /\ ~q[qj].cb_func /\ ~q[qj].udata
        /\ q[qj].retrans_count = 1 /\ q[qj].sends = 2
        /\ sk[q[qj].skt].tmr_on[q[qj].query_id]

\* A datagram the receiver has to drop on socket s: receive error, failed
\* radius_pkt_chk, empty slot, source address that is not the address of the
\* query's server, or authenticator made with another secret.
Dropped(s, d, id) ==
    \/ d.error # 0 \/ ~d.chk
    \/ sk[s].ident[id] = NULL
    \/ d.addr # srv[q[sk[s].ident[id]].cur_srv_idx].s.addr
    \/ d.sig # srv[q[sk[s].ident[id]].cur_srv_idx].s.shared_secret

\* C19: receiver drops.  While the client exists, radius_client_recv_cb on
\* any socket with any datagram that has to be dropped leaves every query,
\* slot, timer, counter and pool as it was and raises no fault, whatever
\* cancel races with it; so what can happen next is what could happen
\* without the datagram.
C19_ReceiverDrops ==
    (fault = "none" /\ cli # "freed") =>
        \A s \in {u \in SktIds : sk[u].alive} :
            \A d \in Datagrams, id \in SlotIds :
                \A race \in Races({sk[s].ident[id]}) :
                    Dropped(s, d, id) =>
                        LET r == Recv(s, d.error, d.addr,
                                      [chk |-> d.chk, id |-> id, sig |-> d.sig], race)
                        IN  /\ r.q = q /\ r.sk = sk /\ r.pool = pool
                            /\ r.fault = "none"

\* Reached for C19: a retransmitted query waits in a slot with its timer
\* armed, and the datagrams with the right secret from a foreign address of
\* its server's family are among those the receiver is handed.
C19_Witness ==
    /\ fault = "none" /\ cli = "live"
    /\ \E qi \in QueryIds :
        /\ InSlot(qi) /\ sk[q[qi].skt].tmr_on[q[qi].query_id]
        /\ q[qi].retrans_count = 1 /\ q[qi].sends = 2
        /\ \E d \in Datagrams :
            /\ d.error = 0 /\ d.chk
            /\ d.sig = srv[q[qi].cur_srv_idx].s.shared_secret
            /\ d.addr # srv[q[qi].cur_srv_idx].s.addr
            /\ ss_family(d.addr) = ss_family(srv[q[qi].cur_srv_idx].s.addr)

C20_SameThread ==
    \A qi \in QueryIds :
        (q[qi].cbs > 0 /\ q[qi].cb_err = "0" /\ q[qi].cb_thr = env.target)
            => q[qi].cb_pkt = "req"

\* No callback runs on another thread than the worker the query was posted
\* to: the copy of radius_client_query_done is never made.
C20_NeverCrosses ==
    \A qi \in QueryIds : q[qi].cbs > 0 => q[qi].cb_thr = env.target

C22_Signing ==
    [][\A qi \in QueryIds :
        (/\ q'[qi].st = "live" /\ q'[qi].sends > q[qi].sends
         /\ q'[qi].cur_srv_idx < cli_srv_count
         /\ srv[q'[qi].cur_srv_idx].enabled # 0)
            => q'[qi].buf.sig = srv[q'[qi].cur_srv_idx].s.shared_secret]_vars

\* The part of C22 the code keeps: a send made by radius_client_send_new, the
\* first one to a server, is signed with that server's secret.
C22_FirstSendSigned ==
    [][\A qi \in QueryIds :
        (q'[qi].st = "live" /\ q'[qi].sends > q[qi].sends /\ q'[qi].retrans_count = 0)
            => q'[qi].buf.sig = srv[q'[qi].cur_srv_idx].s.shared_secret]_vars

\* The errors a query without a server ends with.
NoServerErrors == {"EDESTADDRREQ", "ECONNREFUSED"}

\* C23: index re-validation.  A handler that works on a query in a slot whose
\* server index is not below the registry count (an entry was removed under
\* it) ends the query with the no-server error and sends nothing.
C23_IndexRevalidated ==
    [][\A qi \in QueryIds :
        (/\ cli = "live" /\ InSlot(qi)
         /\ q[qi].cur_srv_idx >= cli_srv_count
         /\ q'[qi] # q[qi]
         /\ q'[qi].st = "freed" \/ q'[qi].cb_func = q[qi].cb_func)
            => /\ q'[qi].st = "freed"
               /\ q[qi].cb_func => q'[qi].cb_err \in NoServerErrors]_vars

\* C24: registry mutual exclusion.  Under any interleaving of calls of
\* radius_client_server_add and of the removals from two threads, an add
\* that writes finds the count below the capacity, so the count never
\* exceeds the capacity and no entry beyond the array is written.
C24_AddWithinCapacity ==
    [][\A t \in Threads :
        (adders[t] = "tested" /\ adders'[t] = "idle")
            => cli_srv_count < ServersCap(cs.servers_max)]_vars

\* The pools of the client, as <<thread, pool name>>.
Pools == Threads \X PoolNames

\* C25 as stated: pool size bounds.  From creation until destroy every pool
\* holds between thr_sockets_min and thr_sockets_max sockets.
C25_PoolSizeBounds ==
    cli = "live" =>
        \A tp \in Pools :
            /\ pool[tp[1]][tp[2]].skt_count >= cs.thr_sockets_min
            /\ pool[tp[1]][tp[2]].skt_count <= cs.thr_sockets_max

\* C25, as the code has it: a pool starts empty and gets its sockets on
\* demand; it never holds more than thr_sockets_max sockets, and while the
\* client lives no step that takes a socket from it leaves it with fewer
\* than thr_sockets_min.
C25_PoolSizeKept ==
    [][\A tp \in Pools :
        /\ pool'[tp[1]][tp[2]].skt_count <= cs.thr_sockets_max
        /\ (cli' = "live" /\ pool'[tp[1]][tp[2]].skt_count < pool[tp[1]][tp[2]].skt_count)
                => pool'[tp[1]][tp[2]].skt_count >= cs.thr_sockets_min]_vars

\* A pool at thr_sockets_max with both sockets in use, next to a pool that
\* is still empty.
C25_Witness ==
    /\ cli = "live" /\ fault = "none"
    /\ cs.thr_sockets_min < cs.thr_sockets_max
    /\ \E tp \in Pools :
        /\ pool[tp[1]][tp[2]].skt_count = cs.thr_sockets_max
        /\ pool[tp[1]][tp[2]].queries_count = 2
    /\ \E tp \in Pools : pool[tp[1]][tp[2]].skt_count = 0

\* Query qi leaves socket s in this step.
Detaches(qi, s) == q[qi].skt = s /\ q'[qi].skt # s

\* Socket s is left empty by qi, its pool holds more than thr_sockets_min
\* sockets and s is the last of them.
Shrinkable(qi, s) ==
    /\ \A id \in SlotIds : sk[s].ident[id] \in {NULL, qi}
    /\ pool[s[1]][s[2]].skt_count > cs.thr_sockets_min
    /\ pool[s[1]][s[2]].skt[pool[s[1]][s[2]].skt_count - 1] = s

\* C26: shrink rule.  While the client lives, a socket is destroyed exactly
\* in a step that detaches a query from it, leaves it without occupied slots,
\* with the pool above thr_sockets_min and the socket last in the pool; the
\* sockets that remain keep their positions in the pool.
C26_ShrinkRule ==
    [][(cli' = "live" /\ fault' = "none") =>
        /\ \A s \in SktIds :
            (sk[s].alive /\ ~sk'[s].alive)
                => \E qi \in QueryIds : Detaches(qi, s) /\ Shrinkable(qi, s)
        /\ \A s \in SktIds, qi \in QueryIds :
            (sk[s].alive /\ Detaches(qi, s) /\ Shrinkable(qi, s)) => ~sk'[s].alive
        /\ \A tp \in Pools, i \in 0 .. (SktMax - 1) :
            (i < pool[tp[1]][tp[2]].skt_count /\ i < pool'[tp[1]][tp[2]].skt_count)
                => pool'[tp[1]][tp[2]].skt[i] = pool[tp[1]][tp[2]].skt[i]]_vars

\* Two queries with the same fixed id were live in two sockets of the IPv4
\* pool; the second one completed after it was sent and its socket, the
\* last of the pool, is gone.
C26_Witness ==
    /\ cli = "live" /\ fault = "none" /\ cli_srv_count = 1
    /\ cs.thr_sockets_max = 2
    /\ q[1].st = "live" /\ q[1].query_id_any = 0
    /\ q[1].skt = <<env.target, "skts4", 0>>
    /\ sk[q[1].skt].queries_index = 0
    /\ q[2].st = "freed" /\ q[2].cbs = 1 /\ q[2].cb_err \in {"0", "ETIMEDOUT"}
    /\ pool[env.target]["skts4"].skt_count = 1
    /\ ~sk[<<env.target, "skts4", 1>>].alive

\* Query qi gets a slot in this step: the worker's handler or the timer
\* handler links it to a socket it was not linked to.
Attaches(qi) ==
    /\ q[qi].st \in {"posted", "live"}
    /\ q'[qi].st = "live"
    /\ q'[qi].skt # NoSkt /\ q'[qi].skt # q[qi].skt
    /\ fault' = "none"

\* The pool of the socket qi is linked to after the step, as it was before.
PoolBefore(qi) == pool[q'[qi].skt[1]][q'[qi].skt[2]]

\* Positions of PoolBefore(qi) whose socket could take a fixed id / an auto id.
FixedRoom(qi, id) ==
    {i \in 0 .. (PoolBefore(qi).skt_count - 1) :
        sk[PoolBefore(qi).skt[i]].ident[id] = NULL}

AutoRoom(qi) ==
    {i \in 0 .. (PoolBefore(qi).skt_count - 1) :
        sk[PoolBefore(qi).skt[i]].queries_count < RADIUS_PKT_HDR_ID_MAX_COUNT}

\* The socket at the new last position of the pool, created in this step.
IsNewSocket(qi) ==
    /\ PoolBefore(qi).skt_count < cs.thr_sockets_max
    /\ pool'[q'[qi].skt[1]][q'[qi].skt[2]].skt_count = PoolBefore(qi).skt_count + 1
    /\ pool'[q'[qi].skt[1]][q'[qi].skt[2]].skt[PoolBefore(qi).skt_count] = q'[qi].skt
    /\ ~sk[q'[qi].skt].alive

\* C27: caller-fixed id allocation.  A query with a fixed id gets slot [id]
\* of the lowest-indexed socket of the pool whose slot [id] is empty; only if
\* there is none a socket is created, below thr_sockets_max, and the query
\* gets its slot [id]; the id byte of the caller's buffer stays.
C27_FixedIdAllocation ==
    [][\A qi \in QueryIds :
        (Attaches(qi) /\ q[qi].query_id_any = 0) =>
            LET id == q[qi].query_id
            IN  /\ q'[qi].query_id = id /\ q'[qi].buf.id = q[qi].buf.id
                /\ sk'[q'[qi].skt].ident[id] = qi
                /\ IF FixedRoom(qi, id) # {}
                   THEN /\ q'[qi].skt = PoolBefore(qi).skt[Min(FixedRoom(qi, id))]
                        /\ pool'[q'[qi].skt[1]][q'[qi].skt[2]].skt_count
                                = PoolBefore(qi).skt_count
                   ELSE IsNewSocket(qi)]_vars

\* A query with fixed id 1 sits in slot 1 of the first of two sockets whose
\* slot 1 was empty, the second socket left as it was; and a query that found
\* slot 0 taken sits in slot 0 of a socket created for it.
C27_Witness ==
    /\ fault = "none" /\ cli = "live"
    /\ \E qi \in QueryIds :
        /\ q[qi].st = "live" /\ q[qi].query_id_any = 0 /\ q[qi].query_id = 1
        /\ q[qi].skt = <<env.target, "skts4", 0>>
        /\ sk[<<env.target, "skts4", 1>>].alive
        /\ sk[<<env.target, "skts4", 1>>].queries_count = 0

C27_NewSocket ==
    /\ fault = "none" /\ cli = "live"
    /\ q[1].st = "live" /\ q[1].query_id_any = 0 /\ q[1].query_id = 0
    /\ q[1].skt = <<env.target, "skts4", 0>>
    /\ q[2].st = "live" /\ q[2].query_id_any = 0 /\ q[2].query_id = 0
    /\ q[2].skt = <<env.target, "skts4", 1>>
    /\ cs.thr_sockets_min = 1

\* The slot a two-segment probe from hint finds in a slot table: the first
\* empty slot from hint up, else the first empty slot below hint.
ProbeResult(ident, hint) ==
    IF \E j \in SlotIds : j >= hint /\ ident[j] = NULL
    THEN CHOOSE j \in SlotIds :
            /\ j >= hint /\ ident[j] = NULL
            /\ \A k \in SlotIds : (k >= hint /\ ident[k] = NULL) => j <= k
    ELSE CHOOSE j \in SlotIds :
            /\ ident[j] = NULL
            /\ \A k \in SlotIds : ident[k] = NULL => j <= k

\* C28: auto-id allocation.  A query with the AUTO id gets, in the
\* lowest-indexed socket of the pool with fewer occupied slots than the table
\* has, the first empty slot from queries_index up to the last slot, else from
\* slot 0 up to queries_index; such a socket has an empty slot, the slot
\* chosen was empty, its id is written to the query and its buffer, and
\* queries_index becomes id + 1.  Without such a socket the query gets slot
\* 0 of a socket created for it.
C28_AutoIdAllocation ==
    [][\A qi \in QueryIds :
        (Attaches(qi) /\ q[qi].query_id_any # 0) =>
            LET id == q'[qi].query_id
                s == q'[qi].skt
            IN  /\ sk'[s].ident[id] = qi
                /\ sk'[s].queries_index = id + 1
                /\ q'[qi].buf.id = id
                /\ IF AutoRoom(qi) # {}
                   THEN /\ s = PoolBefore(qi).skt[Min(AutoRoom(qi))]
                        /\ \E j \in SlotIds : sk[s].ident[j] = NULL
                        /\ sk[s].ident[id] = NULL
                        /\ id = ProbeResult(sk[s].ident, sk[s].queries_index)
                   ELSE IsNewSocket(qi) /\ id = 0]_vars

\* An auto-id query sits in slot 0 of the one socket of the pool, whose slot
\* 1 is held by a query with that fixed id that came first; queries_index
\* is 1.
C28_Witness ==
    /\ fault = "none" /\ cli = "live"
    /\ \E qa, qf \in QueryIds :
        /\ q[qa].st = "live" /\ q[qa].query_id_any # 0 /\ q[qa].query_id = 0
        /\ q[qf].st = "live" /\ q[qf].query_id_any = 0 /\ q[qf].query_id = 1
        /\ q[qa].skt = q[qf].skt /\ qf < qa
        /\ sk[q[qa].skt].queries_index = 1
        /\ pool[env.target]["skts4"].skt_count = 1

\* Occupied slots of socket s.
OccupiedSlots(s) == {id \in SlotIds : sk[s].ident[id] # NULL}

\* Sum of queries_count over the sockets in the first n entries of the
\* skt[] array of pool tp.
RECURSIVE PoolSum(_, _)
PoolSum(tp, n) ==
    IF n = 0 THEN 0
    ELSE PoolSum(tp, n - 1)
            + (IF pool[tp[1]][tp[2]].skt[n - 1] = NoSkt THEN 0
               ELSE sk[pool[tp[1]][tp[2]].skt[n - 1]].queries_count)

\* C29: occupancy counters.  The queries_count of every socket is the number
\* of its occupied slots, every occupied slot holds a query linked to that
\* socket and slot, and the queries_count of every pool is the sum over the
\* sockets its skt[] array points to.
C29_OccupancyCounters ==
    fault = "none" =>
        /\ \A s \in SktIds :
            /\ sk[s].queries_count = Cardinality(OccupiedSlots(s))
            /\ \A id \in OccupiedSlots(s) :
                /\ q[sk[s].ident[id]].skt = s
                /\ q[sk[s].ident[id]].query_id = id
        /\ \A qi \in QueryIds :
            q[qi].skt # NoSkt => sk[q[qi].skt].ident[q[qi].query_id] = qi
        /\ \A tp \in Pools :
            pool[tp[1]][tp[2]].queries_count = PoolSum(tp, SktMax)

\* Two sockets of one pool hold a query each, one of them after it left a
\* slot of the other family's pool for the second server.
C29_Witness ==
    /\ fault = "none" /\ cli = "live"
    /\ \E tp \in Pools :
        /\ pool[tp[1]][tp[2]].skt_count = 2
        /\ pool[tp[1]][tp[2]].queries_count = 2
        /\ \A i \in 0 .. 1 : sk[pool[tp[1]][tp[2]].skt[i]].queries_count = 1
    /\ \E qi \in QueryIds : q[qi].st = "live" /\ q[qi].cur_srv_idx = 1
    /\ cli_srv_count = 2
    /\ ss_family(srv[0].s.addr) # ss_family(srv[1].s.addr)

\* The slots, as <<socket, id>>, that hold query qi after the step.
SlotsOf(qi) == {x \in SktIds \X SlotIds : sk'[x[1]].ident[x[2]] = qi}

\* The pool that serves an address family.
FamilyPool(family) == IF family = "AF_INET" THEN "skts4" ELSE "skts6"

\* C30: address-family switch.  When the timer handler moves a query to the
\* next server and it stays live: if that server's family is not the family
\* of the pool of the query's socket, the query leaves its slot (slot
\* cleared, timer deleted, both counters decremented, or the socket freed)
\* and gets a slot in the other pool of the same worker; if the family is the
\* same, it keeps socket and slot.  After a handler run that moved it over
\* one server or more, the query sits in the pool of the family of its
\* server, on the same worker.  A query never holds more than one slot.
C30_FamilySwitch ==
    [][\A qi \in QueryIds :
        /\ fault' = "none" => Cardinality(SlotsOf(qi)) <= 1
        /\ (/\ InSlot(qi) /\ q'[qi].st = "live" /\ fault' = "none"
            /\ q'[qi].cur_srv_idx # q[qi].cur_srv_idx) =>
                /\ q'[qi].skt # NoSkt /\ q'[qi].skt[1] = q[qi].skt[1]
                /\ q'[qi].skt[2]
                        = FamilyPool(ss_family(srv[q'[qi].cur_srv_idx].s.addr))
        /\ (/\ InSlot(qi) /\ q'[qi].st = "live" /\ fault' = "none"
            /\ q'[qi].cur_srv_idx = q[qi].cur_srv_idx + 1) =>
            LET s == q[qi].skt
                id == q[qi].query_id
                family == ss_family(srv[q'[qi].cur_srv_idx].s.addr)
                p == FamilyPool(family)
            IN  IF p = s[2]
                THEN q'[qi].skt = s /\ q'[qi].query_id = id
                ELSE /\ q'[qi].skt # NoSkt
                     /\ q'[qi].skt[1] = s[1] /\ q'[qi].skt[2] = p
                     /\ sk'[q'[qi].skt].ident[q'[qi].query_id] = qi
                     /\ sk'[s].ident[id] = NULL /\ ~sk'[s].tmr_on[id]
                     /\ pool'[s[1]][s[2]].queries_count
                            = pool[s[1]][s[2]].queries_count - 1
                     /\ sk'[s].alive => sk'[s].queries_count = sk[s].queries_count - 1]_vars

\* A query with a fixed id that left the IPv6 pool for a slot of the IPv4
\* pool of its worker when it moved to the second server; the IPv6 pool
\* counts no query.
C30_Witness ==
    /\ fault = "none" /\ cli = "live" /\ cli_srv_count = 2
    /\ ss_family(srv[0].s.addr) = "AF_INET6" /\ ss_family(srv[1].s.addr) = "AF_INET"
    /\ \E qi \in QueryIds :
        /\ q[qi].st = "live" /\ q[qi].query_id_any = 0 /\ q[qi].cur_srv_idx = 1
        /\ q[qi].skt # NoSkt /\ q[qi].skt[2] = "skts4" /\ q[qi].sends >= 2
        /\ pool[q[qi].skt[1]]["skts6"].queries_count = 0
        /\ pool[q[qi].skt[1]]["skts4"].queries_count >= 1

\* The step is a run of the timer handler.
TimerStep ==
    \E s \in SktIds : \E id \in {i \in SlotIds : sk[s].tmr_on[i]} :
        \E k1, k2 \in env.jitter, ok \in BOOLEAN,
           oks \in [1 .. MaxServers -> BOOLEAN],
           race \in Races({sk[s].ident[id]}) :
            radius_client_query_timeout_cb(s, id, k1, k2, ok, oks, race)

\* C31: exhaustion error.  A query that went out at least once, had servers
\* after its own in the registry and is completed by the timer handler, gets
\* ETIMEDOUT in its callback.
C31_ExhaustionError ==
    [][\A qi \in QueryIds :
        (/\ Completed(qi) /\ q[qi].sends >= 1
         /\ q[qi].cur_srv_idx + 1 < cli_srv_count
         /\ q'[qi].cbs = 1 /\ fault' = "none"
         /\ TimerStep)
            => q'[qi].cb_err = "ETIMEDOUT"]_vars

\* The part of C31 the code keeps: a timer expiry that finds the retry count
\* of the query's server used up ends the query with ETIMEDOUT.
C31_RetriesUsedUp ==
    [][\A qi \in QueryIds :
        (/\ Completed(qi) /\ InSlot(qi)
         /\ q'[qi].cbs = 1 /\ fault' = "none"
         /\ srv[q[qi].cur_srv_idx].s.retrans_count_max # 0
         /\ q[qi].retrans_count + 1 >= srv[q[qi].cur_srv_idx].s.retrans_count_max
         /\ TimerStep)
            => q'[qi].cb_err = "ETIMEDOUT"]_vars

\* The step is a run of the worker's handler of the message of query qi in
\* which sendto() fails.
FirstSendFails(qi) ==
    \E t \in {u \in Threads : msgq[u] # <<>>} :
        /\ Head(msgq[t]).type = "query" /\ Head(msgq[t]).query = qi
        /\ \E k1, k2 \in env.jitter, race \in Races({qi}) :
                radius_client_query_tpt_msg_cb(t, k1, k2, FALSE, race)

Touched(t) ==
    \/ pool'[t] # pool[t]
    \/ \E s \in SktIds : s[1] = t /\ sk'[s] # sk[s]

\* The step is a run of a handler on the thread of worker t: of a query or
\* destroy message taken from its queue, of a timer or of a receive event of
\* one of its sockets.
OnThread(t) ==
    \/ /\ msgq[t] # <<>>
       /\ \/ \E k1, k2 \in env.jitter, ok \in BOOLEAN,
                race \in Races({Head(msgq[t]).query}) :
                    radius_client_query_tpt_msg_cb(t, k1, k2, ok, race)
          \/ \E race \in Races(QueriesOf(t)) :
                    radius_client_destroy_tpt_msg_cb(t, race)
    \/ \E s \in {u \in SktIds : u[1] = t} :
        \/ \E id \in {i \in SlotIds : sk[s].tmr_on[i]} :
            \E k1, k2 \in env.jitter, ok \in BOOLEAN,
               oks \in [1 .. MaxServers -> BOOLEAN],
               race \in Races({sk[s].ident[id]}) :
                radius_client_query_timeout_cb(s, id, k1, k2, ok, oks, race)
        \/ /\ sk[s].alive
           /\ \E d \in Datagrams, id \in SlotIds : \E race \in Races({sk[s].ident[id]}) :
                radius_client_recv_cb(s, d.error, d.addr,
                                      [chk |-> d.chk, id |-> id, sig |-> d.sig], race)

\* C33: worker confinement.  A step that writes a pool, a slot table, a
\* counter or a timer of a worker is a run of a handler on that worker's
\* thread, and no step writes the data of two workers; the socket and the
\* slot of a query are in the pools of the worker the query names.
C33_WorkerConfinement ==
    [][/\ \A t \in Threads : Touched(t) => OnThread(t)
       /\ \A t, u \in Threads : Touched(t) /\ Touched(u) => t = u
       /\ \A qi \in QueryIds :
            q'[qi].st = "live" /\ q'[qi].skt # NoSkt => q'[qi].skt[1] = q'[qi].tpt]_vars

\* Both workers hold a query in a slot of one of their sockets, the queries
\* having come from a thread that is one of the two.
C33_Witness ==
    /\ fault = "none" /\ cli = "live"
    /\ \A t \in Threads :
        \E s \in SktIds, id \in SlotIds :
            /\ s[1] = t /\ sk[s].alive /\ sk[s].ident[id] # NULL
            /\ sk[s].tmr_on[id]
            /\ q[sk[s].ident[id]].tpt = t

\* C34: termination with a duration budget.  With servers that all have
\* retrans_duration_max > 0 and retrans_count_max = 0 and never reply, with
\* messages and timers run fairly, a query that was accepted is completed in
\* the end, whatever the jitter bytes are.
C34_Termination ==
    \A qi \in QueryIds :
        (q[qi].st \in {"posted", "live"}) ~> (q[qi].st = "freed")

\* The second half of C34: the interval armed for a query in a slot is
\* never 0.
C34_IntervalPositive ==
    \A qi \in QueryIds :
        q[qi].st = "live" /\ InSlot(qi) => q[qi].retrans_time > 0

\* C35: timeout ceiling.  The interval armed for a query in a slot, the
\* first one and each one computed at an expiry, is at most the
\* retrans_time_max of the query's server when that is not 0.
C35_TimeoutCeiling ==
    \A qi \in QueryIds :
        (/\ q[qi].st = "live" /\ InSlot(qi)
         /\ sk[q[qi].skt].tmr_on[q[qi].query_id]
         /\ srv[q[qi].cur_srv_idx].s.retrans_time_max # 0)
            => q[qi].retrans_time <= srv[q[qi].cur_srv_idx].s.retrans_time_max

\* The part of C35 the code keeps: the interval armed is at most twice
\* retrans_time_max.
C35_TwiceCeiling ==
    \A qi \in QueryIds :
        (/\ q[qi].st = "live" /\ InSlot(qi)
         /\ sk[q[qi].skt].tmr_on[q[qi].query_id]
         /\ srv[q[qi].cur_srv_idx].s.retrans_time_max # 0)
            => q[qi].retrans_time <= 2 * srv[q[qi].cur_srv_idx].s.retrans_time_max

\* C36: destroy against pending enqueues.  A query whose message was
\* waiting when radius_client_destroy was called has its callback run at
\* most once, is completed when destroy has returned, and no handler reads
\* freed memory in a run with such a query.
C36_DestroyPending ==
    \A qi \in QueryIds :
        q[qi].at_destroy
            => /\ fault \notin {"uaf", "uaf_query"}
               /\ q[qi].cbs <= 1
               /\ cli = "freed" => q[qi].st = "freed"

\* The part of C36 the code keeps: such a query's callback never runs twice,
\* and the query is completed when destroy has returned unless the handler
\* of its message or of the destroy message met undefined behaviour.
C36_CompletedOnce ==
    \A qi \in QueryIds :
        q[qi].at_destroy
            => /\ q[qi].cbs <= 1
               /\ cli = "freed" /\ fault = "none" => q[qi].st = "freed"

\* C37: no use of a freed socket in the timer handler.  With the client
\* alive, a run of the timer handler, failover to a server of the other
\* family included, reads no freed socket.
C37_NoFreedSocket ==
    [][cli = "live" /\ TimerStep => fault' \notin {"uaf", "uaf_query"}]_vars

\* The intervals radius_client_send_new can arm for a server with settings
\* s: retrans_time_init less its jitter, or, when that is above a
\* retrans_time_max that is set, retrans_time_max less its jitter.
FirstIntervals(s) ==
    { IF s.retrans_time_max # 0
            /\ (s.retrans_time_init + UMod
                    - radius_client_rnd_factor(s.retrans_time_init, k1)) % UMod
                > s.retrans_time_max
      THEN (s.retrans_time_max + UMod
                - radius_client_rnd_factor(s.retrans_time_max, k2)) % UMod
      ELSE (s.retrans_time_init + UMod
                - radius_client_rnd_factor(s.retrans_time_init, k1)) % UMod
        : k1 \in env.jitter, k2 \in env.jitter }

\* C38: counter reset on failover.  A query that radius_client_send_new has
\* sent, for the first time or after the timer handler moved it to another
\* server, has retrans_count 0 and retrans_duration 0 and an interval
\* computed from the settings of the server it is now at.
C38_CounterReset ==
    [][\A qi \in QueryIds :
        (/\ q'[qi].st = "live" /\ q'[qi].sends # q[qi].sends
         /\ fault' = "none"
         /\ \/ q[qi].st = "posted"
            \/ q[qi].st = "live" /\ q'[qi].cur_srv_idx # q[qi].cur_srv_idx)
            => /\ q'[qi].retrans_count = 0
               /\ q'[qi].retrans_duration = 0
               /\ q'[qi].retrans_time \in FirstIntervals(srv[q'[qi].cur_srv_idx].s)]_vars

\* Reached for C38: a query that was retransmitted to the IPv6 server, whose
\* limit is 6, waits for the IPv4 server, second in the registry, with no
\* expiry counted, no duration and the capped interval of that server
\* (3 less 1).
C38_Witness ==
    /\ fault = "none" /\ cli_srv_count = 2
    /\ srv[0].s.addr = "c6" /\ srv[1].s.addr = "a4"
    /\ \E qi \in QueryIds :
        /\ q[qi].st = "live" /\ q[qi].cur_srv_idx = 1 /\ q[qi].sends = 3
        /\ q[qi].retrans_count = 0 /\ q[qi].retrans_duration = 0
        /\ q[qi].retrans_time = 2

\* The step is a call of radius_client_query that returns an error.
QueryFails ==
    \E id \in AnyQueryIdArgs, call \in Calls :
        /\ QueryError(id, call) # "0"
        /\ radius_client_query(env.target, id, call)

\* C39: enqueue error leaves the caller's buffer unchanged.  When
\* radius_client_query returns an error, buf->used is what it was before the
\* call: no NAS-Identifier attribute was appended.
C39_BufferUnchanged ==
    [][QueryFails => last_ret' # "0" /\ cbuf'.used = cbuf'.given]_vars

\* The part of C39 the code keeps: a call that fails its pointer test, or
\* whose packet is no Access-Request, or whose radius_pkt_attr_add fails,
\* leaves buf->used as it was.
C39_EarlyErrors ==
    [][\A id \in AnyQueryIdArgs, call \in Calls :
        (/\ call.nulls # {} \/ call.nas # "ok"
         /\ QueryError(id, call) # "0"
         /\ radius_client_query(env.target, id, call))
            => cbuf'.used = cbuf'.given]_vars

====
